---- MODULE Spec2Model ----
(***************************************************************************)
(* Model of the session run engine of vibes.py: the TelegramStream         *)
(* rendering stream (buffer, tail selection, render, throttled edit loop)  *)
(* and the SessionManager (run_prompt, attachment arbitration, callbacks). *)
(*                                                                         *)
(* Strings are run-length encoded: a string is a sequence of runs          *)
(* [c, n, id], n copies of the character c.  id is the number of the       *)
(* add_text/add_code call the characters came from (0 for characters the   *)
(* stream itself inserts).  A "character" may be a multi-character token   *)
(* (an HTML entity or tag); its width is the length of its text.           *)
(***************************************************************************)
EXTENDS Integers, Sequences, FiniteSets, TLC

\* ------------------------------------------------------------ constants
MAX_TELEGRAM_CHARS == 4096
EDIT_THROTTLE_SECONDS == 2
MAX_ATTEMPTS == 5
MAX_ATTEMPTS_STOPPING == 12
MaxCalls == 3

NL == "\n"
\* The 24 characters of the marker line; ~ stands for the ellipsis character.
HIDDEN == "~previous output hidden~"
PRE_OPEN == "<pre><code>"
PRE_CLOSE == "</code></pre>"

\* ------------------------------------------------------------ variables
VARIABLES
  header_html,                    \* TelegramStream._header_html
  header_plain_len,               \* TelegramStream._header_plain_len
  auto_clear_header_on_first_log, \* TelegramStream._auto_clear_header_on_first_log
  footer_html,                    \* what TelegramStream._footer_provider returns
  footer_plain_len,               \* TelegramStream._footer_plain_len
  wrap_log_in_pre,                \* TelegramStream._wrap_log_in_pre
  log_segments,                   \* TelegramStream._log_segments
  calls,                          \* history: the add_text/add_code calls made
  _reply_markup,                  \* TelegramStream._reply_markup
  _dirty,                         \* TelegramStream._dirty (asyncio.Event)
  _stop,                          \* TelegramStream._stop (asyncio.Event)
  _resume_event,                  \* TelegramStream._resume_event (asyncio.Event)
  _last_sent_html,                \* TelegramStream._last_sent_html: <<>> is None, <<t>> is t
  _last_sent_markup,              \* TelegramStream._last_sent_markup
  since_edit,                     \* time since _last_edit_mono, capped at the throttle
  pc,                             \* where TelegramStream._run (the stream's task) stands
  text_html,                      \* _run's text_html, the argument of _edit
  edit_markup,                    \* _run's reply_markup, the argument of _edit
  attempts,                       \* _edit's attempts
  stop_mode,                      \* _edit: whether _stop was set when it chose its limits
  healthy,                        \* the channel: once TRUE it accepts every edit
  quiet,                          \* the callers: once TRUE they call the stream no more
  rec_status,                     \* SessionRecord.status of each session
  rec_run,                        \* SessionRecord.run of each session (NoRun is None)
  process,                        \* the engine process each run_prompt task spawned
  task,                           \* the run_prompt tasks: their session, position and locals
  _run_message_to_session,        \* SessionManager._run_message_to_session
  ui,                             \* chat_data["ui"]: mode and session
  handler,                        \* the session whose stop or deletion the callback handler awaits
  handler_pc,                     \* where the awaiting callback handler stands
  sessions,                       \* SessionManager.sessions: the names in the registry
  rec,                            \* the persisted fields of each SessionRecord
  signals,                        \* history: the signals sent to each task's process group
  stopping,                       \* each caller of stop(): the process it awaits, for how long
  state_file,                     \* STATE_PATH on disk: <<>> is no file, <<t>> is the text t
  tmp_file,                       \* STATE_PATH + ".tmp" on disk
  run_events,                     \* history: the stdout records the reader handled in the run
  token_source,                   \* history: how the run's token was found ("none": not yet)
  edit_rejected,                  \* history: an edit of the stream was rejected for good
  call_log,                       \* history: the calls of the operation that a specification is about
  log_files                       \* LOG_DIR: the session whose name the logs of each task's run bear

streamData == <<header_html, header_plain_len, auto_clear_header_on_first_log,
                footer_html, footer_plain_len, wrap_log_in_pre, log_segments, calls,
                _reply_markup>>

streamLoop == <<_last_sent_html, _last_sent_markup, since_edit, pc, text_html,
                edit_markup, attempts, stop_mode>>

streamEvents == <<_dirty, _stop, _resume_event>>

environment == <<healthy, quiet>>

manager == <<rec_status, rec_run, process, task, _run_message_to_session, ui, handler>>

disk == <<state_file, tmp_file>>

\* What the session handlers leave alone.
histories == <<run_events, token_source, edit_rejected, call_log>>

aside == <<histories, log_files>>

others == <<handler_pc, sessions, rec, signals, stopping, disk, aside>>

vars == <<streamData, streamLoop, streamEvents, environment, manager, others>>

\* ------------------------------------------------------------ the registry at start
\* self.sessions, in insertion order.
Names == <<"A", "B">>

NameSet == {Names[i] : i \in DOMAIN Names}

None == "None"

\* The run_prompt tasks created in one behaviour.
MaxTasks == 2

Tasks == 1..MaxTasks

\* The message id of the chat's panel; the message that task t's send_message
\* creates has id t.
PANEL == 0

Surfaces == {PANEL} \cup Tasks

\* stop()'s callers: 0 is the callback handler, t is run_prompt task t.
Callers == {0} \cup Tasks

\* No wait_for(proc.wait(), 5.0) in progress.
NoWait == [proc |-> 0, elapsed |-> 0]

ENGINE_CODEX == "codex"

ENGINE_CLAUDE == "claude"

ENGINE_CHOICES == {ENGINE_CODEX, ENGINE_CLAUDE}

DEFAULT_MODEL == "gpt-5.2"

DEFAULT_CLAUDE_MODEL == "sonnet"

DEFAULT_REASONING_EFFORT == "high"

\* The fields of a SessionRecord that save_state writes, but status: an
\* Optional field is <<>> for None and <<v>> for the value v.
SessionRecord(path, engine, model) ==
  [path |-> path, engine |-> engine, thread_id |-> << >>, model |-> model,
   reasoning_effort |-> DEFAULT_REASONING_EFFORT, last_result |-> "never",
   last_stdout_log |-> << >>, last_stderr_log |-> << >>,
   last_run_duration_s |-> << >>, pending_delete |-> FALSE]

\* The status is written as it is.
status_as_is(status) == status

\* The "status" that save_state writes for a record.
saved_status(status) == IF status # "running" THEN status ELSE "idle"

\* The "sessions" object of save_state's payload.
payload(names, status, records) ==
  [n \in names |->
     [path |-> records[n].path,
      engine |-> records[n].engine,
      thread_id |-> records[n].thread_id,
      model |-> records[n].model,
      reasoning_effort |-> records[n].reasoning_effort,
      status |-> saved_status(status[n]),
      last_result |-> records[n].last_result,
      last_stdout_log |-> records[n].last_stdout_log,
      last_stderr_log |-> records[n].last_stderr_log,
      last_run_duration_s |-> records[n].last_run_duration_s,
      pending_delete |-> records[n].pending_delete]]

\* json.dumps: the text of a payload. A text that is not whole is a proper
\* prefix of it.
dumps(p) == [payload |-> p, whole |-> TRUE]

\* save_state when nothing else holds the lock and the write is not
\* interrupted: the file is replaced by the text of the registry as the caller
\* leaves it.
save_state ==
  /\ state_file' = << dumps(payload(sessions', rec_status', rec')) >>
  /\ UNCHANGED tmp_file

NoRun ==
  [task |-> 0, message_id |-> PANEL, paused |-> FALSE, stop_requested |-> FALSE,
   _resume_event |-> TRUE]

\* stream: the TelegramStream the task made ("none": not yet); text: the text
\* that the task's save_state writes; readers: the stdout_task and stderr_task
\* of the run ("none": not created, "reading", "done": at the end of their
\* pipes, "cancelled").
NoTask ==
  [session |-> None, pc |-> "none", message_id |-> PANEL, paused |-> FALSE, stream |-> "none",
   text |-> << >>, readers |-> "none"]

\* A manager whose sessions were created and saved and are idle, the session
\* list on the panel.
InitManager ==
  /\ rec_status = [n \in NameSet |-> "idle"]
  /\ rec_run = [n \in NameSet |-> NoRun]
  /\ process = [t \in Tasks |-> "none"]
  /\ task = [t \in Tasks |-> NoTask]
  /\ _run_message_to_session = [m \in Surfaces |-> None]
  /\ ui = [mode |-> "sessions", session |-> None]
  /\ handler = None
  /\ handler_pc = "none"
  /\ sessions = NameSet
  /\ rec = [n \in NameSet |-> SessionRecord("/srv", ENGINE_CODEX, DEFAULT_MODEL)]
  /\ signals = [t \in Tasks |-> {}]
  /\ stopping = [c \in Callers |-> NoWait]
  /\ state_file = << dumps(payload(NameSet, rec_status, rec)) >>
  /\ tmp_file = << >>
  /\ run_events = << >>
  /\ token_source = "none"
  /\ call_log = << >>
  /\ log_files = [t \in Tasks |-> None]

\* ------------------------------------------------------------ strings
Run(c, n, id) == [c |-> c, n |-> n, id |-> id]

Max(a, b) == IF a >= b THEN a ELSE b

\* F(x), with x computed once, whatever the number of times F uses it.
Bind(F(_), x) == CHOOSE r \in { F(v) : v \in {x} } : TRUE

RECURSIVE StrLen(_)
StrLen(s) == IF s = <<>> THEN 0 ELSE s[1].n * Len(s[1].c) + StrLen(Tail(s))

Front(s) == SubSeq(s, 1, Len(s) - 1)

RECURSIVE LastChars(_, _)
LastChars(s, k) ==
  IF k <= 0 \/ s = <<>> THEN <<>>
  ELSE LET r == s[Len(s)] IN
       IF r.n >= k THEN << [r EXCEPT !.n = k] >>
       ELSE LastChars(Front(s), k - r.n) \o <<r>>

\* Python s[-k:]: the last k characters, and for k = 0 the whole string.
Slice(s, k) == IF k = 0 \/ k >= StrLen(s) THEN s ELSE LastChars(s, k)

RECURSIVE LStrip(_, _)
LStrip(s, chars) ==
  IF s # <<>> /\ s[1].c \in chars THEN LStrip(Tail(s), chars) ELSE s

RECURSIVE RStrip(_, _)
RStrip(s, chars) ==
  IF s # <<>> /\ s[Len(s)].c \in chars THEN RStrip(Front(s), chars) ELSE s

Strip(s, chars) == Bind(LAMBDA t : RStrip(t, chars), Bind(LAMBDA t : LStrip(t, chars), s))

WHITESPACE == {NL, " "}

EscapeChar(c) ==
  CASE c = "&"  -> "&amp;"
    [] c = "<"  -> "&lt;"
    [] c = ">"  -> "&gt;"
    [] c = "\"" -> "&quot;"
    [] c = "'"  -> "&#x27;"
    [] OTHER    -> c

html_escape(s) == [i \in DOMAIN s |-> [s[i] EXCEPT !.c = EscapeChar(s[i].c)]]

RECURSIVE Flatten(_)
Flatten(ss) == IF ss = <<>> THEN <<>> ELSE ss[1] \o Flatten(Tail(ss))

\* The text of a string, whatever its run boundaries and the calls it came from.
MergeRun(r, rest) ==
  IF rest # <<>> /\ rest[1].c = r.c
  THEN << Run(r.c, r.n + rest[1].n, 0) >> \o Tail(rest)
  ELSE << Run(r.c, r.n, 0) >> \o rest

RECURSIVE CanonRuns(_)
CanonRuns(s) ==
  IF s = <<>> THEN <<>>
  ELSE Bind(LAMBDA rest : MergeRun(s[1], rest), CanonRuns(Tail(s)))

Canon(s) == Bind(CanonRuns, s)

Reverse(s) == [i \in 1..Len(s) |-> s[Len(s) + 1 - i]]

\* ------------------------------------------------------------ Segment
Segment(kind, content) == [kind |-> kind, content |-> content]

plain_len(seg) == StrLen(seg.content)

render_html(seg) ==
  IF seg.kind = "code"
  THEN << Run(PRE_OPEN, 1, 0) >> \o html_escape(seg.content) \o << Run(PRE_CLOSE, 1, 0) >>
  ELSE html_escape(seg.content)

HiddenPrefix == Segment("text", << Run(HIDDEN, 1, 0), Run(NL, 2, 0) >>)

\* ------------------------------------------------------------ _tail_segments
RECURSIVE TailLoop(_, _, _, _, _)
TailLoop(segments, i, total, kept_rev, max_plain) ==
  IF i = 0 THEN kept_rev
  ELSE LET seg == segments[i]
           seg_len == plain_len(seg)
       IN IF total + seg_len <= max_plain
          THEN TailLoop(segments, i - 1, total + seg_len, Append(kept_rev, seg), max_plain)
          ELSE IF kept_rev = <<>>
               THEN << Segment(seg.kind, Slice(seg.content, max_plain)) >>
               ELSE kept_rev

\* kept_rev returned as it is, the reversal forgotten.
KeptOrderNotReversed(kept_rev) == kept_rev

KeptOrder(kept_rev) == Reverse(kept_rev)

_tail_segments(segments, max_plain) ==
  Bind(LAMBDA kept : IF Len(kept) < Len(segments) THEN <<HiddenPrefix>> \o kept ELSE kept,
       KeptOrder(TailLoop(segments, Len(segments), 0, <<>>, max_plain)))

\* ------------------------------------------------------------ _render_html
LogOf(tail_segments, wrap) ==
  IF wrap
  THEN LET plain_log == Strip(Flatten([i \in DOMAIN tail_segments |-> tail_segments[i].content]), {NL})
       IN << Run(PRE_OPEN, 1, 0) >> \o html_escape(plain_log) \o << Run(PRE_CLOSE, 1, 0) >>
  ELSE Strip(Flatten([i \in DOMAIN tail_segments |-> render_html(tail_segments[i])]), WHITESPACE)

LogHtml(segments, wrap, max_plain_log) ==
  Bind(LAMBDA tail_segments : LogOf(tail_segments, wrap), _tail_segments(segments, max_plain_log))

RECURSIVE JoinParts(_)
JoinParts(parts) ==
  IF parts = <<>> THEN <<>>
  ELSE IF parts[1] = <<>> THEN JoinParts(Tail(parts))
  ELSE LET rest == JoinParts(Tail(parts)) IN
       IF rest = <<>> THEN parts[1] ELSE parts[1] \o << Run(NL, 2, 0) >> \o rest

TextHtml(hdr, ftr, segments, wrap, max_plain_log) ==
  Bind(JoinParts, << Strip(hdr, WHITESPACE), LogHtml(segments, wrap, max_plain_log), Strip(ftr, WHITESPACE) >>)

\* The for-loop of _render_html: the log budget of the attempt whose text is
\* returned (the first that fits, else the eighth).
RECURSIVE RenderLoop(_, _, _, _, _, _)
RenderLoop(hdr, ftr, segments, wrap, max_plain_log, attempt) ==
  IF Bind(StrLen, TextHtml(hdr, ftr, segments, wrap, max_plain_log)) <= MAX_TELEGRAM_CHARS \/ attempt = 8
  THEN max_plain_log
  ELSE Bind(LAMBDA next_log : RenderLoop(hdr, ftr, segments, wrap, next_log, attempt + 1),
            Max(80, (max_plain_log * 3) \div 4))

MaxPlainTotal ==
  IF MAX_TELEGRAM_CHARS - 250 < 500 THEN MAX_TELEGRAM_CHARS ELSE MAX_TELEGRAM_CHARS - 250

MaxPlainLog(hpl, fpl) == Max(300, MaxPlainTotal - hpl - fpl - 50)

RenderBudget ==
  RenderLoop(header_html, footer_html, log_segments, wrap_log_in_pre,
             MaxPlainLog(header_plain_len, footer_plain_len), 1)

_render_html ==
  Bind(LAMBDA max_plain_log : TextHtml(header_html, footer_html, log_segments, wrap_log_in_pre, max_plain_log),
       RenderBudget)

\* ------------------------------------------------------------ stream inputs
\* The texts a caller appends: "" (ignored), one character, a newline, a short
\* run of characters that HTML escaping expands, and more than a whole message.
Texts == { <<>>,
           << Run("a", 1, 0) >>,
           << Run(NL, 1, 0) >>,
           << Run("\"", 100, 0) >>,
           << Run("a", 5000, 0) >> }

Tagged(text, id) == [i \in DOMAIN text |-> [text[i] EXCEPT !.id = id]]

\* run_prompt's start header (RUN_START_WAIT_NOTE in <i>..</i>).
StartHeader == [html |-> << Run("<i>", 1, 0), Run("a", 137, 0), Run("</i>", 1, 0) >>, plain_len |-> 137]

\* _build_running_header_html / _build_running_header_plain_len for a session
\* whose name, path, engine, model and status make k plain characters.
RunningHeader(k) ==
  [html |-> << Run("<b>Session:</b> <code>", 1, 0), Run("a", k, 0), Run("</code>", 1, 0) >>,
   plain_len |-> k]

Headers == { StartHeader, RunningHeader(60), RunningHeader(3500) }

\* _working_footer_html and len("---- Working 0m 0s ----").
WorkingFooter == [html |-> << Run("<code>", 1, 0), Run("-", 23, 0), Run("</code>", 1, 0) >>, plain_len |-> 23]

\* ------------------------------------------------------------ stream operations
ClearHeaderOnFirstLog ==
  IF auto_clear_header_on_first_log
  THEN /\ auto_clear_header_on_first_log' = FALSE
       /\ header_html' = <<>>
       /\ header_plain_len' = 0
  ELSE UNCHANGED <<auto_clear_header_on_first_log, header_html, header_plain_len>>

AppendText(segments, text) ==
  IF segments # <<>> /\ segments[Len(segments)].kind = "text"
  THEN [segments EXCEPT ![Len(segments)].content = @ \o text]
  ELSE Append(segments, Segment("text", text))

EndsWithNewline(seg) == seg.content # <<>> /\ seg.content[Len(seg.content)].c = NL

AppendCode(segments, code) ==
  LET sep == IF segments = <<>> \/ ~EndsWithNewline(segments[Len(segments)])
             THEN Append(segments, Segment("text", << Run(NL, 1, 0) >>))
             ELSE segments
  IN sep \o << Segment("code", code), Segment("text", << Run(NL, 1, 0) >>) >>

add_text(text) ==
  IF text = <<>>
  THEN UNCHANGED <<streamData, streamEvents>>
  ELSE /\ ClearHeaderOnFirstLog
       /\ log_segments' = AppendText(log_segments, Tagged(text, Len(calls) + 1))
       /\ calls' = Append(calls, [kind |-> "text", content |-> text])
       /\ _dirty' = TRUE
       /\ UNCHANGED <<footer_html, footer_plain_len, wrap_log_in_pre, _reply_markup,
                      _stop, _resume_event>>

add_code(code) ==
  IF code = <<>>
  THEN UNCHANGED <<streamData, streamEvents>>
  ELSE /\ ClearHeaderOnFirstLog
       /\ log_segments' = AppendCode(log_segments, Tagged(code, Len(calls) + 1))
       /\ calls' = Append(calls, [kind |-> "code", content |-> code])
       /\ _dirty' = TRUE
       /\ UNCHANGED <<footer_html, footer_plain_len, wrap_log_in_pre, _reply_markup,
                      _stop, _resume_event>>

set_header(h) ==
  /\ header_html' = h.html
  /\ header_plain_len' = h.plain_len
  /\ _dirty' = TRUE
  /\ UNCHANGED <<auto_clear_header_on_first_log, footer_html, footer_plain_len,
                 wrap_log_in_pre, log_segments, calls, _reply_markup, _stop, _resume_event>>

set_footer(f, wrap) ==
  /\ footer_html' = f.html
  /\ footer_plain_len' = f.plain_len
  /\ wrap_log_in_pre' = wrap
  /\ _dirty' = TRUE
  /\ UNCHANGED <<header_html, header_plain_len, auto_clear_header_on_first_log,
                 log_segments, calls, _reply_markup, _stop, _resume_event>>

set_reply_markup(markup) ==
  /\ _reply_markup' = markup
  /\ _dirty' = TRUE
  /\ UNCHANGED <<header_html, header_plain_len, auto_clear_header_on_first_log,
                 footer_html, footer_plain_len, wrap_log_in_pre, log_segments, calls,
                 _stop, _resume_event>>

\* stop() up to its await of the task; it returns when the task is done.
stop ==
  /\ _stop' = TRUE
  /\ _dirty' = TRUE
  /\ UNCHANGED <<streamData, _resume_event>>

pause ==
  /\ _resume_event' = FALSE
  /\ UNCHANGED <<streamData, _dirty, _stop>>

resume ==
  /\ _resume_event' = TRUE
  /\ _dirty' = TRUE
  /\ UNCHANGED <<streamData, _stop>>

\* ------------------------------------------------------------ the stream's task
\* The task returned whenever _stop is set, _dirty not looked at.
FinishCycleIgnoresDirty(dirty_now) ==
  /\ since_edit' = 0
  /\ attempts' = 0
  /\ pc' = IF _stop THEN "done" ELSE "wait_dirty"

\* The end of one round of _run's loop: _last_edit_mono is set, and the task
\* returns if _stop is set and _dirty is not.
FinishCycle(dirty_now) ==
  /\ since_edit' = 0
  /\ attempts' = 0
  /\ pc' = IF _stop /\ ~dirty_now THEN "done" ELSE "wait_dirty"

\* _render_html, _snapshot and the start of _edit: nothing is sent when the text
\* and the markup are those last sent.
Dispatch(dirty_now) ==
  LET text == Canon(_render_html) IN
  /\ text_html' = text
  /\ edit_markup' = _reply_markup
  /\ IF <<text>> = _last_sent_html /\ _reply_markup = _last_sent_markup
     THEN /\ FinishCycle(dirty_now)
          /\ UNCHANGED <<stop_mode, _last_sent_html, _last_sent_markup>>
     ELSE /\ attempts' = 1
          /\ stop_mode' = _stop
          /\ pc' = "edit"
          /\ UNCHANGED <<since_edit, _last_sent_html, _last_sent_markup>>

\* After the throttle wait: a paused stream waits for resume or stop.
AfterThrottle(dirty_now) ==
  IF ~_resume_event
  THEN /\ pc' = "paused"
       /\ UNCHANGED <<_last_sent_html, _last_sent_markup, since_edit, text_html,
                      edit_markup, attempts, stop_mode>>
  ELSE Dispatch(dirty_now)

\* _dirty.wait() returns: the flag is cleared and the throttle wait computed.
LoopWake ==
  /\ pc = "wait_dirty"
  /\ _dirty
  /\ _dirty' = FALSE
  /\ IF since_edit < EDIT_THROTTLE_SECONDS /\ ~_stop
     THEN /\ pc' = "throttle"
          /\ UNCHANGED <<_last_sent_html, _last_sent_markup, since_edit, text_html,
                         edit_markup, attempts, stop_mode>>
     ELSE AfterThrottle(FALSE)
  /\ UNCHANGED <<streamData, _stop, _resume_event, environment, manager, others>>

\* The wait ends at any time.
ThrottleDoneAtOnce ==
  /\ pc = "throttle"
  /\ AfterThrottle(_dirty)
  /\ UNCHANGED <<streamData, streamEvents, environment, manager, others>>

\* wait_for(_stop.wait(), timeout=wait) ends: _stop is set or the time is up.
ThrottleDone ==
  /\ pc = "throttle"
  /\ _stop \/ since_edit >= EDIT_THROTTLE_SECONDS
  /\ AfterThrottle(_dirty)
  /\ UNCHANGED <<streamData, streamEvents, environment, manager, others>>

\* Only resume() wakes a paused task.
PausedWakeOnResumeOnly == _resume_event

\* asyncio.wait({resume_task, stop_task}) ends: the task returns if _stop is set.
PausedWakeEnabled == _resume_event \/ _stop

PausedWake ==
  /\ pc = "paused"
  /\ PausedWakeEnabled
  /\ IF _stop
     THEN /\ pc' = "done"
          /\ UNCHANGED <<_last_sent_html, _last_sent_markup, since_edit, text_html,
                         edit_markup, attempts, stop_mode>>
     ELSE Dispatch(_dirty)
  /\ UNCHANGED <<streamData, streamEvents, environment, manager, others>>

\* The answers of edit_message_text.
Replies == {"ok", "retry_after", "not_modified", "cannot_edit", "bad_request", "telegram_error"}

MaxAttempts == IF stop_mode THEN MAX_ATTEMPTS_STOPPING ELSE MAX_ATTEMPTS

\* After a RetryAfter: give up at the attempt limit or past the time limit.
GiveUp(late) == attempts >= MaxAttempts \/ late

\* What _edit does with an answer of edit_message_text.  late: whether more
\* than max_total_wait_s have passed since _edit began.
edit_reply(reply, late) ==
  /\ pc = "edit"
  /\ healthy => reply = "ok"
  /\ CASE reply \in {"ok", "not_modified", "cannot_edit"} ->
                 /\ _last_sent_html' = <<text_html>>
                 /\ _last_sent_markup' = edit_markup
                 /\ FinishCycle(_dirty)
                 /\ UNCHANGED <<_dirty>>
                 /\ edit_rejected' = (edit_rejected \/ reply = "cannot_edit")
            [] reply = "retry_after" /\ GiveUp(late) ->
                 /\ _dirty' = (_dirty \/ ~_stop)
                 /\ FinishCycle(_dirty \/ ~_stop)
                 /\ UNCHANGED <<_last_sent_html, _last_sent_markup, edit_rejected>>
            [] reply = "retry_after" /\ ~GiveUp(late) ->
                 /\ pc' = "backoff"
                 /\ UNCHANGED <<_last_sent_html, _last_sent_markup, since_edit, attempts, _dirty,
                                edit_rejected>>
            [] OTHER ->
                 /\ FinishCycle(_dirty)
                 /\ UNCHANGED <<_last_sent_html, _last_sent_markup, _dirty, edit_rejected>>
  /\ UNCHANGED <<streamData, _stop, _resume_event, text_html, edit_markup, stop_mode,
                 environment, manager, handler_pc, sessions, rec, signals, stopping, disk,
                 run_events, token_source, log_files>>

\* edit_message_text answers; the calls themselves take any time.
EditReply ==
  /\ \E reply \in Replies, late \in BOOLEAN : edit_reply(reply, late)
  /\ UNCHANGED call_log

\* asyncio.sleep(delay_s) ends: the next attempt.
BackoffDone ==
  /\ pc = "backoff"
  /\ attempts' = attempts + 1
  /\ pc' = "edit"
  /\ UNCHANGED <<streamData, streamEvents, environment, manager, others, _last_sent_html,
                 _last_sent_markup, since_edit, text_html, edit_markup, stop_mode>>

\* Time passes.
Tick ==
  /\ since_edit < EDIT_THROTTLE_SECONDS
  /\ since_edit' = since_edit + 1
  /\ UNCHANGED <<streamData, streamEvents, environment, manager, others, _last_sent_html,
                 _last_sent_markup, pc, text_html, edit_markup, attempts, stop_mode>>

_run == LoopWake \/ ThrottleDone \/ PausedWake \/ EditReply \/ BackoffDone

\* ------------------------------------------------------------ the buffer alone
\* TelegramStream as constructed by run_prompt (wrap_log_in_pre = True) or with
\* the constructor's default (False).
InitStream(wraps) ==
  /\ header_html = StartHeader.html
  /\ header_plain_len = StartHeader.plain_len
  /\ auto_clear_header_on_first_log = TRUE
  /\ footer_html = WorkingFooter.html
  /\ footer_plain_len = WorkingFooter.plain_len
  /\ wrap_log_in_pre \in wraps
  /\ log_segments = <<>>
  /\ calls = <<>>
  /\ _reply_markup = "running_kb"
  /\ _dirty = TRUE
  /\ _stop = FALSE
  /\ _resume_event = TRUE
  /\ _last_sent_html = <<>>
  /\ _last_sent_markup = "None"
  /\ since_edit = EDIT_THROTTLE_SECONDS
  /\ pc = "wait_dirty"
  /\ text_html = <<>>
  /\ edit_markup = "None"
  /\ attempts = 0
  /\ stop_mode = FALSE
  /\ healthy = FALSE
  /\ quiet = FALSE
  /\ edit_rejected = FALSE

\* run_prompt's keyboard and _stop_confirm_keyboard.
Markups == {"running_kb", "stop_confirm_kb"}

\* The buffer operations alone, the stream's task not yet scheduled.
InitRender == InitStream(BOOLEAN) /\ InitManager

RenderAddText ==
  /\ \E text \in Texts : Len(calls) < MaxCalls /\ add_text(text)
  /\ UNCHANGED <<streamLoop, environment, manager, others>>

RenderAddCode ==
  /\ \E code \in Texts : Len(calls) < MaxCalls /\ add_code(code)
  /\ UNCHANGED <<streamLoop, environment, manager, others>>

RenderSetHeader ==
  /\ \E h \in Headers : set_header(h)
  /\ UNCHANGED <<streamLoop, environment, manager, others>>

RenderSetFooter ==
  /\ \E wrap \in BOOLEAN : set_footer(WorkingFooter, wrap)
  /\ UNCHANGED <<streamLoop, environment, manager, others>>

RenderSetReplyMarkup ==
  /\ \E markup \in Markups : set_reply_markup(markup)
  /\ UNCHANGED <<streamLoop, environment, manager, others>>

NextRender ==
  RenderAddText \/ RenderAddCode \/ RenderSetHeader \/ RenderSetFooter \/ RenderSetReplyMarkup

SpecRender == InitRender /\ [][NextRender]_vars

\* ------------------------------------------------------------ one stream and its task
StreamText == << Run("a", 1, 0) >>

StreamAddText ==
  /\ ~quiet
  /\ Len(calls) < MaxCalls
  /\ add_text(StreamText)
  /\ UNCHANGED <<streamLoop, environment, manager, others>>

StreamPause ==
  /\ ~quiet
  /\ pause
  /\ UNCHANGED <<streamLoop, environment, manager, others>>

StreamResume ==
  /\ ~quiet
  /\ resume
  /\ UNCHANGED <<streamLoop, environment, manager, others>>

\* stop() is called once on a stream, by the run_prompt that made it.
StreamStop ==
  /\ ~quiet
  /\ ~_stop
  /\ stop
  /\ UNCHANGED <<streamLoop, environment, manager, others>>

Quiesce ==
  /\ ~quiet
  /\ quiet' = TRUE
  /\ UNCHANGED <<streamData, streamLoop, streamEvents, healthy, manager, others>>

ChannelHeals ==
  /\ ~healthy
  /\ healthy' = TRUE
  /\ UNCHANGED <<streamData, streamLoop, streamEvents, quiet, manager, others>>

StreamCalls ==
  \/ StreamAddText
  \/ StreamPause
  \/ StreamResume
  \/ StreamStop

NextStream == _run \/ Tick \/ StreamCalls \/ Quiesce \/ ChannelHeals

InitStreamRun == InitStream({TRUE}) /\ InitManager

SpecStream == InitStreamRun /\ [][NextStream]_vars

\* The event loop runs a task that can run, and an edit call or a sleep ends;
\* nothing is assumed of the clock.
SpecStreamNoClock == SpecStream /\ WF_vars(_run)

\* The same, and time passes.
SpecStreamFair == SpecStream /\ WF_vars(_run) /\ WF_vars(Tick)

\* ------------------------------------------------------------ the sleeps of one edit dispatch
\* The times of _edit are floats: they are counted in hundredths of a second.
PerSecond == 100

\* What a RetryAfter carries as retry_after: nothing positive, 0.01 s, 1 s, 20 s.
RetryAfters == {0, 1, 1 * PerSecond, 20 * PerSecond}

DEFAULT_RETRY_AFTER == 2 * PerSecond

MAX_TOTAL_WAIT_S == 15 * PerSecond

MAX_TOTAL_WAIT_S_STOPPING == 60 * PerSecond

max_total_wait_s == IF stop_mode THEN MAX_TOTAL_WAIT_S_STOPPING ELSE MAX_TOTAL_WAIT_S

\* The RetryAfter answers of the dispatch under way, kept in call_log: what
\* the first of them carried, delay_s after each, and whether _edit then slept.
Retries == IF attempts <= 1 THEN << >> ELSE call_log

delay_s == IF Retries = << >> THEN 0 ELSE Retries[Len(Retries)].delay_s

RECURSIVE Slept(_)
Slept(log) ==
  IF log = << >> THEN 0
  ELSE Slept(Front(log)) + (IF log[Len(log)].slept THEN log[Len(log)].delay_s ELSE 0)

\* delay_s is the sum of the delays so far.
next_delay_s_adds(e_retry_after) ==
  LET retry_after == IF e_retry_after <= 0 THEN DEFAULT_RETRY_AFTER ELSE e_retry_after
  IN IF delay_s > 0 THEN delay_s + retry_after ELSE retry_after

\* delay_s = max(retry_after, delay_s * 2 if delay_s > 0 else retry_after)
next_delay_s(e_retry_after) ==
  LET retry_after == IF e_retry_after <= 0 THEN DEFAULT_RETRY_AFTER ELSE e_retry_after
  IN Max(retry_after, IF delay_s > 0 THEN delay_s * 2 ELSE retry_after)

\* edit_message_text answers, a RetryAfter with its retry_after.  The time since
\* _edit began is that of its sleeps and of its calls, which take any time.
EditReplyTimed ==
  \E reply \in Replies, late \in BOOLEAN, e_retry_after \in RetryAfters :
    /\ Slept(Retries) > max_total_wait_s => late
    /\ edit_reply(reply, late)
    /\ call_log' =
         IF reply = "retry_after"
         THEN Append(Retries, [first |-> IF Retries = << >> THEN e_retry_after
                                         ELSE Retries[1].first,
                               delay_s |-> next_delay_s(e_retry_after),
                               slept |-> ~GiveUp(late)])
         ELSE Retries

\* The task of a stream that is given no text, until stop() is called.
NextEdit ==
  \/ LoopWake
  \/ ThrottleDone
  \/ EditReplyTimed
  \/ BackoffDone
  \/ Tick
  \/ StreamStop

SpecEdit == InitStreamRun /\ [][NextEdit]_vars

\* The event loop runs the task when it can run: a call is answered, a sleep ends.
SpecEditFair ==
  SpecEdit /\ WF_vars(LoopWake \/ ThrottleDone \/ EditReplyTimed \/ BackoffDone) /\ WF_vars(Tick)

\* ------------------------------------------------------------ claims on the buffer
Contents(segments) == Flatten([i \in DOMAIN segments |-> segments[i].content])

IsAppended(r) == r.id # 0

Appended(s) == SelectSeq(s, IsAppended)

RECURSIVE Count(_)
Count(s) == IF s = <<>> THEN 0 ELSE s[1].n + Count(Tail(s))

\* The segments _render_html renders, and the same without the marker segment.
RenderedTail == _tail_segments(log_segments, RenderBudget)

HasMarker(kept) == kept # <<>> /\ kept[1] = HiddenPrefix

Body(kept) == IF HasMarker(kept) THEN Tail(kept) ELSE kept

\* C2: the text _render_html returns is at most MAX_TELEGRAM_CHARS long.
C2_RenderWithinLimit == StrLen(_render_html) <= MAX_TELEGRAM_CHARS

\* C3: when the rendered tail leaves out a character that add_text/add_code
\* appended, the tail starts with the "previous output hidden" marker.
C3_OmissionIsMarked ==
  Count(Appended(Contents(RenderedTail))) < Count(Appended(Contents(log_segments)))
    => HasMarker(RenderedTail)

\* t is the text of the end of s, run for run.
RECURSIVE IsSuffixStr(_, _)
IsSuffixStr(t, s) ==
  IF t = <<>> THEN TRUE
  ELSE IF s = <<>> THEN FALSE
  ELSE LET a == t[Len(t)]
           b == s[Len(s)]
       IN /\ a.c = b.c
          /\ a.id = b.id
          /\ IF a.n = b.n THEN IsSuffixStr(Front(t), Front(s))
             ELSE a.n < b.n /\ Len(t) = 1

\* kept (marker aside) is the last segments of segments, in their order; only
\* when it is a single segment may that one be the end of the last segment.
IsContiguousSuffix(kept, segments) ==
  LET body == Body(kept)
      k == Len(body)
      n == Len(segments)
  IN /\ k <= n
     /\ \A i \in 2..k : body[i] = segments[n - k + i]
     /\ k >= 1 =>
          \/ body[1] = segments[n - k + 1]
          \/ /\ k = 1
             /\ body[1].kind = segments[n].kind
             /\ IsSuffixStr(body[1].content, segments[n].content)

SegmentOf(id) ==
  CHOOSE i \in DOMAIN log_segments : \E j \in DOMAIN log_segments[i].content :
    log_segments[i].content[j].id = id

CallsInOrder ==
  Appended(Contents(log_segments)) =
    Flatten([i \in DOMAIN calls |-> Tagged(calls[i].content, i)])

TextCallsMerge ==
  \A i \in DOMAIN calls :
    (i + 1 \in DOMAIN calls /\ calls[i].kind = "text" /\ calls[i + 1].kind = "text")
      => SegmentOf(i) = SegmentOf(i + 1)

CodeCallsSeparated ==
  \A i \in DOMAIN calls :
    calls[i].kind = "code" =>
      LET k == SegmentOf(i) IN
        /\ log_segments[k] = Segment("code", Tagged(calls[i].content, i))
        /\ k - 1 \in DOMAIN log_segments
        /\ log_segments[k - 1].kind = "text"
        /\ EndsWithNewline(log_segments[k - 1])
        /\ k + 1 \in DOMAIN log_segments
        /\ log_segments[k + 1].kind = "text"
        /\ log_segments[k + 1].content[1].c = NL

\* C4: the segments, concatenated, hold every call's argument in call order
\* (text calls in a row share a segment, a code call has its own segment between
\* newline separators), and the tail rendered is a contiguous suffix of them.
C4_OrderPreserved ==
  /\ CallsInOrder
  /\ TextCallsMerge
  /\ CodeCallsSeparated
  /\ IsContiguousSuffix(RenderedTail, log_segments)
  /\ IsContiguousSuffix(_tail_segments(log_segments, 300), log_segments)

\* A text call and a code call were made, leading segments were dropped and at
\* least two segments are still shown.
C4_Witness ==
  /\ \E i \in DOMAIN calls : calls[i].kind = "code"
  /\ \E i \in DOMAIN calls : calls[i].kind = "text"
  /\ HasMarker(RenderedTail)
  /\ Len(Body(RenderedTail)) >= 2
  /\ Body(RenderedTail)[1] # Body(RenderedTail)[2]

\* ------------------------------------------------------------ claims on the task
\* The text and markup last sent are the render of the buffer as it is now.
InSync == _last_sent_html = << Canon(_render_html) >> /\ _last_sent_markup = _reply_markup

\* C7 as claimed: whenever the task ends, active or paused when stop() came, its
\* last render/edit attempt was of the latest buffer.
C7_FinalRenderOnStop ==
  [][(pc # "done" /\ pc' = "done") => text_html' = Canon(_render_html)]_vars

\* C7, amended: a task that ends elsewhere than in its paused wait ends after
\* stop() with an attempt on the latest buffer; once _stop is set it never enters
\* the throttle wait; a task that has ended stays ended and sends nothing more,
\* whatever is called on the stream.
C7_FinalRenderUnlessPaused ==
  [][/\ (pc \notin {"done", "paused"} /\ pc' = "done")
          => (_stop /\ text_html' = Canon(_render_html))
     /\ (_stop /\ pc # "throttle") => pc' # "throttle"
     /\ pc = "done"
          => (pc' = "done" /\ attempts' = 0 /\ _last_sent_html' = _last_sent_html
              /\ _last_sent_markup' = _last_sent_markup)]_vars

\* The task ended after stop(), its last edit made in stopping mode and sent;
\* text was appended since and resume() called, and nothing more was sent.
C7_Witness ==
  /\ pc = "done"
  /\ stop_mode
  /\ _last_sent_html = <<text_html>>
  /\ Len(calls) >= 2
  /\ text_html # Canon(_render_html)
  /\ _dirty
  /\ _resume_event

\* C8: once stop() was called and nothing more is called on the stream, the
\* task ends (so stop() returns), whatever the channel answers.
C8_StopReturns == (_stop /\ quiet) ~> (pc = "done")

\* After stop(), the last attempt of the stopping mode is in flight on a channel
\* that has only answered with rate limits.
C8_Witness ==
  /\ _stop
  /\ quiet
  /\ ~healthy
  /\ stop_mode
  /\ pc = "edit"
  /\ attempts = MAX_ATTEMPTS_STOPPING

\* C9: on a stream never paused or stopped, once the callers are done and the
\* channel accepts edits, what was last sent is in the end the render of the
\* whole buffer.
C9_EventuallyConsistent ==
  ([](~_stop /\ _resume_event) /\ <>[](quiet /\ healthy)) => <>[]InSync

\* ------------------------------------------------------------ SessionManager
stream == <<streamData, streamLoop, streamEvents, environment>>

SessionRun(t, m) ==
  [task |-> t, message_id |-> m, paused |-> FALSE, stop_requested |-> FALSE,
   _resume_event |-> TRUE]

\* rec.run.paused = True and rec.run.stream.pause(): pause() has no await that
\* suspends, so no other coroutine runs between the two.
paused_run(run) == [run EXCEPT !.paused = TRUE, !._resume_event = FALSE]

\* The flag is cleared and the stream left paused.
resumed_flag_only(run) == [run EXCEPT !.paused = FALSE]

\* rec.run.paused = False, set_footer, set_reply_markup and
\* rec.run.stream.resume(): the stream's lock is never held across an await,
\* so none of the calls suspends.
resumed_run(run) == [run EXCEPT !.paused = FALSE, !._resume_event = TRUE]

\* rec.run.process.returncode is None
Live(r, n) == process[r[n].task] = "live"

\* ------------------------------------------------------------ SessionManager.stop
STOP_GRACE_SECONDS == 5

\* stop(n) sends its signals whether or not the process has exited.
stop_returns_without_run(r, n) == n \notin sessions \/ r[n] = NoRun

\* wait_for gives the process no time.
NoGrace(c) == TRUE

\* stop(n) returns without a signal: no such session, no run, or a process
\* that has exited.
stop_returns_at_once(r, n) == n \notin sessions \/ r[n] = NoRun \/ ~Live(r, n)

\* stop(n) sets stop_requested on the run it finds.
stop_requested_of(r, n) ==
  IF n \in sessions /\ r[n] # NoRun THEN [r EXCEPT ![n].stop_requested = TRUE] ELSE r

\* What stop(n) returns, at once or after its wait.
stop_result(r, n) == n \in sessions /\ r[n] # NoRun

\* stop(n), called by c, from the returncode test to its return or to
\* wait_for: the group of a live process is sent SIGTERM, and c waits.
manager_stop(c, r, n) ==
  IF stop_returns_at_once(r, n)
  THEN UNCHANGED <<signals, stopping>>
  ELSE /\ signals' = [signals EXCEPT ![r[n].task] = @ \cup {"SIGTERM"}]
       /\ stopping' = [stopping EXCEPT ![c] = [proc |-> r[n].task, elapsed |-> 0]]

\* wait_for's timeout has passed for c.
TimedOut(c) == stopping[c].elapsed >= STOP_GRACE_SECONDS

\* wait_for(proc.wait(), 5.0) ends for c: proc.wait() returned, or the timeout
\* passed first and the group is sent SIGKILL.
stop_wait_ends(c) ==
  /\ stopping[c] # NoWait
  /\ process[stopping[c].proc] = "exited" \/ TimedOut(c)
  /\ signals' = IF process[stopping[c].proc] = "exited" THEN signals
                ELSE [signals EXCEPT ![stopping[c].proc] = @ \cup {"SIGKILL"}]
  /\ stopping' = [stopping EXCEPT ![c] = NoWait]

\* The 5 seconds of c's wait_for pass while it waits.
grace_period_passes(c) ==
  /\ stopping[c] # NoWait
  /\ ~TimedOut(c)
  /\ stopping' = [stopping EXCEPT ![c].elapsed = @ + STOP_GRACE_SECONDS]
  /\ UNCHANGED <<stream, aside, manager, handler_pc, sessions, rec, signals, disk>>

\* _is_running(rec) for rec = manager.sessions.get(n).
_is_running(r, n) == n \in sessions /\ r[n] # NoRun /\ Live(r, n) /\ rec_status[n] = "running"

register_run_message(table, m, n) == [table EXCEPT ![m] = n]

\* The registration is left in the table.
keep_run_message(table, m) == table

unregister_run_message(table, m) == [table EXCEPT ![m] = None]

resolve_session_for_run_message(table, m) == table[m]

\* The loop body's test counts a paused run as attached.
AttachedIgnoringPaused(r, n, m) ==
  /\ n \in sessions
  /\ r[n] # NoRun
  /\ rec_status[n] = "running"
  /\ r[n].message_id = m

\* The test of resolve_attached_running_session_for_message's loop body, for
\* the sessions of the registry.
Attached(r, n, m) ==
  /\ n \in sessions
  /\ r[n] # NoRun
  /\ rec_status[n] = "running"
  /\ r[n].message_id = m
  /\ ~r[n].paused

RECURSIVE FirstAttached(_, _, _)
FirstAttached(r, i, m) ==
  IF i > Len(Names) THEN None
  ELSE IF Attached(r, Names[i], m) THEN Names[i]
  ELSE FirstAttached(r, i + 1, m)

resolve_attached_running_session_for_message(r, m) == FirstAttached(r, 1, m)

\* The excepted session is paused like the others.
pause_all_attached_runs(r, m, except_session) ==
  [n \in NameSet |->
     IF /\ n \in sessions
        /\ r[n] # NoRun
        /\ rec_status[n] = "running"
        /\ r[n].message_id = m
        /\ ~r[n].paused
     THEN paused_run(r[n])
     ELSE r[n]]

\* except_session = None: no session is excepted.
pause_other_attached_runs(r, m, except_session) ==
  [n \in NameSet |->
     IF /\ n \in sessions
        /\ n # except_session
        /\ r[n] # NoRun
        /\ rec_status[n] = "running"
        /\ r[n].message_id = m
        /\ ~r[n].paused
     THEN paused_run(r[n])
     ELSE r[n]]

_resolve_session_for_callback_message(r, table, m, fallback) ==
  LET attached == resolve_attached_running_session_for_message(r, m) IN
  IF attached # None THEN attached
  ELSE IF resolve_session_for_run_message(table, m) # None
       THEN resolve_session_for_run_message(table, m)
       ELSE fallback

\* on_callback's _auto_detach_if_running, for a callback from message m.
_auto_detach_if_running(r, table, m) ==
  LET attached == resolve_attached_running_session_for_message(r, m)
      session_name == IF attached # None THEN attached
                      ELSE resolve_session_for_run_message(table, m)
  IN IF session_name = None THEN r
     ELSE IF ~_is_running(r, session_name) \/ r[session_name].paused THEN r
     ELSE [r EXCEPT ![session_name] = paused_run(@)]

\* _render_and_sync up to its first network call: the runs and the table it
\* leaves, for ui u.
_render_and_sync(r, table, u) ==
  IF /\ u.mode = "session"
     /\ u.session \in sessions
     /\ _is_running(r, u.session)
     /\ r[u.session].message_id = PANEL
  THEN [run |-> [pause_other_attached_runs(r, PANEL, u.session)
                   EXCEPT ![u.session] = resumed_run(@)],
        table |-> register_run_message(table, PANEL, u.session)]
  ELSE [run |-> pause_other_attached_runs(r, PANEL, None), table |-> table]

\* The end of a callback handler that renders: ui, then _render_and_sync.
Rerender(r, u) ==
  LET synced == _render_and_sync(r, _run_message_to_session, u) IN
  /\ rec_run' = synced.run
  /\ _run_message_to_session' = synced.table
  /\ ui' = u

\* What log and attach do to a running session from message m.
AttachTo(r, n, m) ==
  /\ rec_run' = [pause_other_attached_runs(r, m, n) EXCEPT ![n] = resumed_run(@)]
  /\ _run_message_to_session' = register_run_message(_run_message_to_session, m, n)
  /\ UNCHANGED ui

\* "sess": a session is chosen in the list on the panel.
on_callback_sess ==
  /\ handler = None
  /\ \E n \in sessions :
       Rerender(_auto_detach_if_running(rec_run, _run_message_to_session, PANEL),
                [mode |-> "session", session |-> n])
  /\ UNCHANGED <<stream, others, rec_status, process, task, handler>>

\* "sessions", "home", "disconnect": the session list is rendered on the panel.
on_callback_sessions ==
  /\ handler = None
  /\ Rerender(_auto_detach_if_running(rec_run, _run_message_to_session, PANEL),
              [ui EXCEPT !.mode = "sessions"])
  /\ UNCHANGED <<stream, others, rec_status, process, task, handler>>

\* The messages that carry the running keyboard: the panel, and the messages
\* that send_message created for the runs in progress.
Messages == {PANEL} \cup {t \in Tasks : task[t].message_id = t}

\* run_prompt returned: of its locals only the stream is looked at afterwards.
Returned(t) == [NoTask EXCEPT !.pc = "done", !.stream = task[t].stream]

on_callback_back_sessions ==
  /\ handler = None
  /\ \E m \in Messages :
       LET r1 == _auto_detach_if_running(rec_run, _run_message_to_session, m)
           n == _resolve_session_for_callback_message(r1, _run_message_to_session, m, ui.session)
           r2 == IF n # None /\ _is_running(r1, n) THEN [r1 EXCEPT ![n] = paused_run(@)] ELSE r1
       IN Rerender(r2, [ui EXCEPT !.mode = "sessions"])
  /\ UNCHANGED <<stream, others, rec_status, process, task, handler>>

on_callback_detach ==
  /\ handler = None
  /\ LET n == _resolve_session_for_callback_message(rec_run, _run_message_to_session, PANEL, ui.session)
         r2 == IF n # None /\ _is_running(rec_run, n)
               THEN [rec_run EXCEPT ![n] = paused_run(@)] ELSE rec_run
     IN Rerender(r2, [ui EXCEPT !.mode = "sessions"])
  /\ UNCHANGED <<stream, others, rec_status, process, task, handler>>

on_callback_log ==
  /\ handler = None
  /\ LET r1 == _auto_detach_if_running(rec_run, _run_message_to_session, PANEL) IN
     IF ui.session = None
     THEN Rerender(r1, [ui EXCEPT !.mode = "sessions"])
     ELSE IF _is_running(r1, ui.session)
          THEN AttachTo(r1, ui.session, PANEL)
          ELSE Rerender(r1, [ui EXCEPT !.mode = "logs"])
  /\ UNCHANGED <<stream, others, rec_status, process, task, handler>>

on_callback_attach ==
  /\ handler = None
  /\ LET r1 == _auto_detach_if_running(rec_run, _run_message_to_session, PANEL) IN
     IF ui.session # None /\ _is_running(r1, ui.session)
     THEN AttachTo(r1, ui.session, PANEL)
     ELSE Rerender(r1, [ui EXCEPT !.mode = "sessions"])
  /\ UNCHANGED <<stream, others, rec_status, process, task, handler>>

on_callback_stop_no ==
  /\ handler = None
  /\ LET n == _resolve_session_for_callback_message(rec_run, _run_message_to_session, PANEL, ui.session) IN
     IF n # None /\ _is_running(rec_run, n)
     THEN /\ rec_run' = [rec_run EXCEPT ![n] = resumed_run(@)]
          /\ UNCHANGED <<_run_message_to_session, ui>>
     ELSE Rerender(rec_run, ui)
  /\ UNCHANGED <<stream, others, rec_status, process, task, handler>>

\* "stop", "interrupt", "stop_yes", up to manager.stop's wait for the process:
\* the session is running, so its process lives and its group is sent SIGTERM.
on_callback_stop ==
  /\ handler = None
  /\ \E m \in Messages :
       LET n == _resolve_session_for_callback_message(rec_run, _run_message_to_session, m, ui.session) IN
       IF n # None /\ _is_running(rec_run, n)
       THEN /\ rec_run' = stop_requested_of(rec_run, n)
            /\ manager_stop(0, rec_run, n)
            /\ handler' = n
            /\ handler_pc' = "stop_4489"
            /\ UNCHANGED <<_run_message_to_session, ui>>
       ELSE /\ Rerender(rec_run, ui)
            /\ UNCHANGED <<handler, handler_pc, signals, stopping>>
  /\ UNCHANGED <<stream, aside, rec_status, process, task, sessions, rec, disk>>

\* manager.stop returned (the process ended, or 5 s passed and it was killed):
\* a paused run's session view is rendered; rec.run may be None by now, and the
\* handler then ends on the error.
on_callback_stop_returns ==
  /\ handler_pc = "stop_4489"
  /\ stop_wait_ends(0)
  /\ handler' = None
  /\ handler_pc' = "none"
  /\ IF rec_run[handler] # NoRun /\ rec_run[handler].paused
     THEN Rerender(rec_run, [mode |-> "session", session |-> handler])
     ELSE UNCHANGED <<rec_run, _run_message_to_session, ui>>
  /\ UNCHANGED <<stream, aside, rec_status, process, task, sessions, rec, disk>>

\* The logs are left in LOG_DIR.
_keep_session_artifacts(files, n) == files

\* The characters of a session name, as far as the file names of LOG_DIR tell
\* them apart: "_" is a character on its own.
Chars(name) == IF name = "S_1" THEN << "S", "_", "1" >> ELSE << name >>

\* run_prompt's name of a log of the session: f"{rec.name}_{ts}.jsonl" (and
\* ".stderr.txt"), ts being "%Y%m%d_%H%M%S".
log_name(name, suffix) == Chars(name) \o << "_", "%Y%m%d", "_", "%H%M%S", suffix >>

\* Path.glob with one "*" in the pattern: the file name begins with what stands
\* before the "*" and ends with what stands after it.
glob(file, before, after) ==
  /\ Len(file) >= Len(before) + Len(after)
  /\ SubSeq(file, 1, Len(before)) = before
  /\ SubSeq(file, Len(file) - Len(after) + 1, Len(file)) = after

\* _delete_session_artifacts: the files of LOG_DIR that match
\* f"{rec.name}_*.jsonl" or f"{rec.name}_*.stderr.txt" are removed; the logs
\* the record names are among them.
_delete_session_artifacts(files, n) ==
  [t \in DOMAIN files |->
     IF /\ files[t] # None
        /\ \A suffix \in {".jsonl", ".stderr.txt"} :
             glob(log_name(files[t], suffix), Chars(n) \o << "_" >>, << suffix >>)
     THEN None ELSE files[t]]

\* ------------------------------------------------------------ delete_yes
\* The end of the "delete_yes" handler, after delete_session(n) returned: the
\* session's view if it is still in the registry, else the session list.
delete_yes_returns(r, n) ==
  /\ Rerender(r, IF n \in sessions'
                 THEN [mode |-> "session", session |-> n]
                 ELSE [ui EXCEPT !.mode = "sessions"])
  /\ handler' = None
  /\ handler_pc' = "none"

\* "delete_yes", to delete_session's save_state: a session whose process lives
\* is marked pending_delete, any other is removed from the registry.
on_callback_delete_yes ==
  /\ handler = None
  /\ IF ui.session \notin sessions
     THEN /\ Rerender(rec_run, [ui EXCEPT !.mode = "sessions"])
          /\ UNCHANGED <<handler, handler_pc, sessions, rec_status, rec, disk, log_files>>
     ELSE /\ handler' = ui.session
          /\ IF rec_run[ui.session] # NoRun /\ Live(rec_run, ui.session)
             THEN /\ rec' = [rec EXCEPT ![ui.session].pending_delete = TRUE]
                  /\ handler_pc' = "save_state_1820"
                  /\ UNCHANGED <<sessions, log_files>>
             ELSE /\ log_files' = _delete_session_artifacts(log_files, ui.session)
                  /\ sessions' = sessions \ {ui.session}
                  /\ handler_pc' = "save_state_1827"
                  /\ UNCHANGED rec
          /\ UNCHANGED <<rec_status, rec_run, _run_message_to_session, ui>>
          /\ save_state
  /\ UNCHANGED <<stream, histories, process, task, signals, stopping>>

\* delete_session's save_state returned and stop(name) runs to its return or
\* to its wait for the process.
on_callback_delete_stop ==
  /\ handler_pc = "save_state_1820"
  /\ manager_stop(0, rec_run, handler)
  /\ UNCHANGED sessions
  /\ IF stop_returns_at_once(rec_run, handler)
     THEN delete_yes_returns(stop_requested_of(rec_run, handler), handler)
     ELSE /\ rec_run' = stop_requested_of(rec_run, handler)
          /\ handler_pc' = "stop_1821"
          /\ UNCHANGED <<handler, _run_message_to_session, ui>>
  /\ UNCHANGED <<stream, aside, rec_status, process, task, rec, disk>>

\* delete_session's stop(name) returned from its wait.
on_callback_delete_stopped ==
  /\ handler_pc = "stop_1821"
  /\ stop_wait_ends(0)
  /\ UNCHANGED sessions
  /\ delete_yes_returns(rec_run, handler)
  /\ UNCHANGED <<stream, aside, rec_status, process, task, rec, disk>>

\* delete_session removed the session and its save_state returned.
on_callback_deleted ==
  /\ handler_pc = "save_state_1827"
  /\ UNCHANGED sessions
  /\ delete_yes_returns(rec_run, handler)
  /\ UNCHANGED <<stream, aside, rec_status, process, task, rec, signals, stopping, disk>>

on_callback_delete ==
  \/ on_callback_delete_yes
  \/ on_callback_delete_stop
  \/ on_callback_delete_stopped
  \/ on_callback_deleted

\* ------------------------------------------------------------ clear
\* clear_session_state returns False: no such session, or its process lives.
clear_fails(r, n) == n \notin sessions \/ (r[n] # NoRun /\ Live(r, n))

\* clear_session_state's assignments to the record.
cleared(record) ==
  [record EXCEPT !.thread_id = << >>,
                 !.last_result = "never",
                 !.last_stdout_log = << >>,
                 !.last_stderr_log = << >>,
                 !.last_run_duration_s = << >>,
                 !.pending_delete = FALSE]

\* "clear", to clear_session_state's return or save_state: a session whose
\* process lives is left alone.
on_callback_clear ==
  /\ handler = None
  /\ IF ui.session \notin sessions
     THEN /\ Rerender(rec_run, [ui EXCEPT !.mode = "sessions"])
          /\ UNCHANGED <<handler, handler_pc, sessions, rec_status, rec, disk, log_files>>
     ELSE IF clear_fails(rec_run, ui.session)
     THEN /\ Rerender(rec_run, ui)
          /\ UNCHANGED <<handler, handler_pc, sessions, rec_status, rec, disk, log_files>>
     ELSE /\ log_files' = _delete_session_artifacts(log_files, ui.session)
          /\ rec' = [rec EXCEPT ![ui.session] = cleared(@)]
          /\ rec_status' = [rec_status EXCEPT ![ui.session] = "idle"]
          /\ rec_run' = [rec_run EXCEPT ![ui.session] = NoRun]
          /\ handler' = ui.session
          /\ handler_pc' = "save_state_1850"
          /\ UNCHANGED <<_run_message_to_session, ui, sessions>>
          /\ save_state
  /\ UNCHANGED <<stream, histories, process, task, signals, stopping>>

\* clear_session_state's save_state returned: the session's view is rendered.
on_callback_cleared ==
  /\ handler_pc = "save_state_1850"
  /\ Rerender(rec_run, [mode |-> "session", session |-> handler])
  /\ handler' = None
  /\ handler_pc' = "none"
  /\ UNCHANGED <<stream, aside, rec_status, process, task, sessions, rec, signals, stopping, disk>>

\* ------------------------------------------------------------ on_text
\* The number of run_prompt tasks created so far.
Created == Cardinality({t \in Tasks : task[t].pc # "none"})

\* A prompt typed in a session's view: _run_in_background is created as a task,
\* unless _is_running; the session list is rendered if the session is gone.
on_text ==
  /\ handler = None
  /\ ui.mode = "session"
  /\ IF ui.session \notin sessions
     THEN /\ Rerender(rec_run, [ui EXCEPT !.mode = "sessions"])
          /\ UNCHANGED task
     ELSE /\ ~_is_running(rec_run, ui.session)
          /\ Created < MaxTasks
          /\ task' = [task EXCEPT ![Created + 1] = [NoTask EXCEPT !.session = ui.session, !.pc = "start"]]
          /\ UNCHANGED <<rec_run, _run_message_to_session, ui>>
  /\ UNCHANGED <<stream, others, rec_status, process, handler>>

\* The elapsed seconds that int(time.monotonic() - started_mono) may give.
MaxDuration == 0

\* ensure_panel returned and run_prompt runs to its first save_state: it returns
\* if the session is not in the registry or the record has a run whose process
\* lives, else the status is "running" and the record names the run's logs.
run_prompt_start(t) ==
  LET n == task[t].session IN
  /\ task[t].pc = "start"
  /\ IF n \notin sessions \/ (rec_run[n] # NoRun /\ Live(rec_run, n))
     THEN /\ task' = [task EXCEPT ![t] = Returned(t)]
          /\ UNCHANGED <<sessions, rec_status, rec, disk>>
     ELSE /\ rec_status' = [rec_status EXCEPT ![n] = "running"]
          /\ rec' = [rec EXCEPT ![n].last_stdout_log = << t >>,
                                ![n].last_stderr_log = << t >>,
                                ![n].last_run_duration_s = << >>]
          /\ task' = [task EXCEPT ![t].pc = "save_state_1910"]
          /\ UNCHANGED sessions
          /\ save_state
  /\ UNCHANGED <<stream, aside, rec_run, process, _run_message_to_session, ui, handler,
                 handler_pc, signals, stopping>>

\* save_state returned: pause_other_attached_runs, then send_message is awaited.
run_prompt_pause_others(t) ==
  /\ task[t].pc = "save_state_1910"
  /\ rec_run' = pause_other_attached_runs(rec_run, PANEL, task[t].session)
  /\ task' = [task EXCEPT ![t].pc = "send_message_1943"]
  /\ UNCHANGED <<stream, others, rec_status, process, _run_message_to_session, ui, handler>>

\* send_message returned (a new message) or raised (the panel is the output
\* message): the message is registered, the stream made, the spawn awaited.
run_prompt_register(t) ==
  /\ task[t].pc = "send_message_1943"
  /\ \E output_message_id \in {t, PANEL} :
       /\ _run_message_to_session' =
            register_run_message(_run_message_to_session, output_message_id, task[t].session)
       /\ task' = [task EXCEPT ![t].pc = "_spawn_process_1995",
                               ![t].message_id = output_message_id,
                               ![t].stream = "running"]
  /\ UNCHANGED <<stream, others, rec_status, rec_run, process, ui, handler>>

\* _spawn_process returned: rec.run is set and save_state, then process.wait(),
\* awaited; the readers make the logs when the process writes its first lines,
\* which an engine does as it starts.
run_prompt_spawned(t) ==
  /\ task[t].pc = "_spawn_process_1995"
  /\ process' = [process EXCEPT ![t] = "live"]
  /\ rec_run' = [rec_run EXCEPT ![task[t].session] = SessionRun(t, task[t].message_id)]
  /\ task' = [task EXCEPT ![t].pc = "wait_2024", ![t].readers = "reading"]
  /\ log_files' = [log_files EXCEPT ![t] = task[t].session]
  /\ UNCHANGED <<stream, histories, rec_status, _run_message_to_session, ui, handler,
                 handler_pc, sessions, rec, signals, stopping>>
  /\ save_state

\* _spawn_process raised: _handle_start_failure, which writes the stderr log,
\* to its save_state.
run_prompt_spawn_failed(t) ==
  /\ task[t].pc = "_spawn_process_1995"
  /\ rec_status' = [rec_status EXCEPT ![task[t].session] = "error"]
  /\ \E d \in 0..MaxDuration :
       rec' = [rec EXCEPT ![task[t].session].last_result = "error",
                          ![task[t].session].last_run_duration_s = << d >>]
  /\ task' = [task EXCEPT ![t].pc = "save_state_1978"]
  /\ log_files' = [log_files EXCEPT ![t] = task[t].session]
  /\ UNCHANGED <<stream, histories, rec_run, process, _run_message_to_session, ui, handler,
                 handler_pc, sessions, signals, stopping>>
  /\ save_state

\* _handle_start_failure after save_state and stream.stop(): the message is
\* unregistered and the panel rendered.
run_prompt_start_failure(t) ==
  /\ task[t].pc = "save_state_1978"
  /\ _run_message_to_session' = unregister_run_message(_run_message_to_session, task[t].message_id)
  /\ task' = [task EXCEPT ![t] = [Returned(t) EXCEPT !.stream = "stopped"]]
  /\ UNCHANGED <<stream, others, rec_status, rec_run, process, ui, handler>>

\* The engine process ends, by itself or killed, and with it every process that
\* holds its pipes: the readers come to the end of stdout and stderr.
process_exits(t) ==
  /\ process[t] = "live"
  /\ process' = [process EXCEPT ![t] = "exited"]
  /\ task' = [task EXCEPT ![t].readers = IF @ = "reading" THEN "done" ELSE @]
  /\ UNCHANGED <<stream, others, rec_status, rec_run, _run_message_to_session, ui, handler>>

\* The engine process ends while a process it started, which left the process
\* group, holds the pipes: readline() of the readers goes on waiting.
process_exits_pipes_open(t) ==
  /\ process[t] = "live"
  /\ task[t].readers = "reading"
  /\ process' = [process EXCEPT ![t] = "exited"]
  /\ UNCHANGED <<stream, others, rec_status, rec_run, task, _run_message_to_session, ui, handler>>

\* The pipes are at their end (that process has ended too, or what was left in
\* them is read): the readers return.
pipes_close(t) ==
  /\ process[t] = "exited"
  /\ task[t].readers = "reading"
  /\ task' = [task EXCEPT ![t].readers = "done"]
  /\ UNCHANGED <<stream, others, rec_status, rec_run, process, _run_message_to_session, ui, handler>>

\* rec.status and rec.last_result after the run.
exit_status(stopped, return_code) ==
  IF stopped THEN "stopped" ELSE IF return_code = 0 THEN "idle" ELSE "error"

exit_result(stopped, return_code) ==
  IF stopped THEN "stopped" ELSE IF return_code = 0 THEN "success" ELSE "error"

\* process.wait() and the readers returned: the status and the result after
\* the run.
run_prompt_exited(t) ==
  LET n == task[t].session
      stopped == rec_run[n] # NoRun /\ rec_run[n].stop_requested
  IN
  /\ task[t].pc = "wait_2024"
  /\ process[t] = "exited"
  /\ task[t].readers # "reading"
  /\ \E return_code \in {0, 1}, d \in 0..MaxDuration :
       /\ rec_status' = [rec_status EXCEPT ![n] = exit_status(stopped, return_code)]
       /\ rec' = [rec EXCEPT ![n].last_run_duration_s = << d >>,
                             ![n].last_result = exit_result(stopped, return_code)]
  /\ task' = [task EXCEPT ![t].pc = "save_state_2040",
                          ![t].paused = (rec_run[n] # NoRun /\ rec_run[n].paused)]
  /\ UNCHANGED <<stream, aside, rec_run, process, _run_message_to_session, ui, handler,
                 handler_pc, sessions, signals, stopping>>
  /\ save_state

\* save_state and stream.stop() returned: the message is unregistered, rec.run
\* is None and save_state awaited; the panel's render for a run that was not
\* paused changes nothing here.
run_prompt_finish(t) ==
  /\ task[t].pc = "save_state_2040"
  /\ _run_message_to_session' = unregister_run_message(_run_message_to_session, task[t].message_id)
  /\ rec_run' = [rec_run EXCEPT ![task[t].session] = NoRun]
  /\ task' = [task EXCEPT ![t].pc = "save_state_2045", ![t].stream = "stopped"]
  /\ UNCHANGED <<stream, aside, rec_status, process, ui, handler,
                 handler_pc, sessions, rec, signals, stopping>>
  /\ save_state

\* The end of run_prompt: a record with pending_delete is given to
\* delete_session, which removes the session from the registry unless the
\* record has a run whose process lives.
run_prompt_pending_delete(t) ==
  LET n == task[t].session IN
  /\ task[t].pc = "save_state_2045"
  /\ IF ~rec[n].pending_delete \/ n \notin sessions
     THEN /\ task' = [task EXCEPT ![t] = Returned(t)]
          /\ UNCHANGED <<sessions, rec_status, rec, disk, log_files>>
     ELSE IF rec_run[n] # NoRun /\ Live(rec_run, n)
     THEN /\ task' = [task EXCEPT ![t].pc = "save_state_1820"]
          /\ UNCHANGED <<sessions, rec_status, rec, log_files>>
          /\ save_state
     ELSE /\ log_files' = _delete_session_artifacts(log_files, n)
          /\ sessions' = sessions \ {n}
          /\ task' = [task EXCEPT ![t] = Returned(t)]
          /\ UNCHANGED <<rec_status, rec>>
          /\ save_state
  /\ UNCHANGED <<stream, histories, rec_run, process, _run_message_to_session, ui,
                 handler, handler_pc, signals, stopping>>

\* delete_session, called at the end of run_prompt: stop(name) to its return
\* or to its wait for the process.
run_prompt_delete_stop(t) ==
  /\ task[t].pc = "save_state_1820"
  /\ rec_run' = stop_requested_of(rec_run, task[t].session)
  /\ manager_stop(t, rec_run, task[t].session)
  /\ task' = [task EXCEPT ![t] = IF stop_returns_at_once(rec_run, task[t].session)
                                 THEN Returned(t)
                                 ELSE [@ EXCEPT !.pc = "stop_1821"]]
  /\ UNCHANGED <<stream, aside, rec_status, process, _run_message_to_session, ui, handler,
                 handler_pc, sessions, rec, disk>>

\* That stop(name) returned from its wait.
run_prompt_delete_stopped(t) ==
  /\ task[t].pc = "stop_1821"
  /\ stop_wait_ends(t)
  /\ task' = [task EXCEPT ![t] = Returned(t)]
  /\ UNCHANGED <<stream, aside, rec_status, rec_run, process, _run_message_to_session, ui,
                 handler, handler_pc, sessions, rec, disk>>

run_prompt ==
  \E t \in Tasks :
    \/ run_prompt_start(t)
    \/ run_prompt_pause_others(t)
    \/ run_prompt_register(t)
    \/ run_prompt_spawned(t)
    \/ run_prompt_spawn_failed(t)
    \/ run_prompt_start_failure(t)
    \/ run_prompt_exited(t)
    \/ run_prompt_finish(t)
    \/ run_prompt_pending_delete(t)

\* delete_session as the end of run_prompt calls it.
run_prompt_delete ==
  \E t \in Tasks : run_prompt_delete_stop(t) \/ run_prompt_delete_stopped(t)

on_callback ==
  \/ on_callback_sess
  \/ on_callback_sessions
  \/ on_callback_back_sessions
  \/ on_callback_detach
  \/ on_callback_log
  \/ on_callback_attach
  \/ on_callback_stop_no
  \/ on_callback_stop
  \/ on_callback_stop_returns

Init == InitStream({TRUE}) /\ InitManager

Next ==
  \/ on_callback
  \/ on_text
  \/ run_prompt
  \/ \E t \in Tasks : process_exits(t)
  \/ grace_period_passes(0)

Spec == Init /\ [][Next]_vars

\* ------------------------------------------------------------ the sessions' lifecycle
\* Prompts, runs, stop, delete and clear, from the session views of the panel.
NextLifecycle ==
  \/ on_callback_sess
  \/ on_text
  \/ run_prompt
  \/ run_prompt_delete
  \/ \E t \in Tasks : process_exits(t)
  \/ on_callback_stop
  \/ on_callback_stop_returns
  \/ on_callback_delete
  \/ on_callback_clear
  \/ on_callback_cleared
  \/ \E c \in Callers : grace_period_passes(c)

\* A manager with one session, idle.
InitLifecycle ==
  /\ InitStream({TRUE})
  /\ rec_status = [n \in NameSet |-> "idle"]
  /\ rec_run = [n \in NameSet |-> NoRun]
  /\ process = [t \in Tasks |-> "none"]
  /\ task = [t \in Tasks |-> NoTask]
  /\ _run_message_to_session = [m \in Surfaces |-> None]
  /\ ui = [mode |-> "sessions", session |-> None]
  /\ handler = None
  /\ handler_pc = "none"
  /\ sessions = {Names[1]}
  /\ rec = [n \in NameSet |-> SessionRecord("/srv", ENGINE_CODEX, DEFAULT_MODEL)]
  /\ signals = [t \in Tasks |-> {}]
  /\ stopping = [c \in Callers |-> NoWait]
  /\ state_file = << dumps(payload(sessions, rec_status, rec)) >>
  /\ tmp_file = << >>
  /\ run_events = << >>
  /\ token_source = "none"
  /\ call_log = << >>
  /\ log_files = [t \in Tasks |-> None]

SpecLifecycle == InitLifecycle /\ [][NextLifecycle]_vars

\* The event loop resumes every coroutine whose await is over, an engine
\* process ends, and time passes.
SpecLifecycleFair ==
  /\ SpecLifecycle
  /\ WF_vars(run_prompt)
  /\ WF_vars(run_prompt_delete)
  /\ WF_vars(\E t \in Tasks : process_exits(t))
  /\ WF_vars(on_callback_stop_returns)
  /\ WF_vars(on_callback_delete_stop \/ on_callback_delete_stopped \/ on_callback_deleted)
  /\ WF_vars(on_callback_cleared)
  /\ WF_vars(\E c \in Callers : grace_period_passes(c))

\* ------------------------------------------------------------ claims on the manager
\* Session n is running, with a run that is not paused and whose stream edits
\* message m.
Qualifies(n, m) ==
  /\ rec_status[n] = "running"
  /\ rec_run[n] # NoRun
  /\ ~rec_run[n].paused
  /\ rec_run[n].message_id = m

\* C1: on each message, at most one running session has an unpaused run whose
\* stream edits it.
C1_OneUnpausedPerSurface ==
  \A m \in Surfaces : Cardinality({n \in NameSet : Qualifies(n, m)}) <= 1

\* C5: at most one engine process spawned by a session's run_prompt tasks lives
\* at any time.
C5_OneProcessPerSession ==
  \A n \in NameSet :
    Cardinality({t \in Tasks : task[t].session = n /\ process[t] = "live"}) <= 1

\* C6: a session whose status is "running" has a SessionRun.
C6_RunningHasRun ==
  \A n \in NameSet : rec_status[n] = "running" => rec_run[n] # NoRun

\* C10: resolve_attached_running_session_for_message returns a running session
\* with an unpaused run on the message whenever there is one, whatever the table
\* says, and None when there is none; the callback's resolution is then the
\* table's entry, or the fallback.
C10_ResolvesAttached ==
  \A m \in Surfaces :
    LET res == resolve_attached_running_session_for_message(rec_run, m)
        qualifying == {n \in NameSet : Qualifies(n, m)}
    IN /\ qualifying # {} => res \in qualifying
       /\ qualifying = {} => res = None
       /\ \A fallback \in NameSet \cup {None} :
            LET cb == _resolve_session_for_callback_message(rec_run, _run_message_to_session,
                                                            m, fallback)
            IN IF qualifying # {} THEN cb \in qualifying
               ELSE IF _run_message_to_session[m] # None THEN cb = _run_message_to_session[m]
               ELSE cb = fallback

\* The table maps the panel to B, whose run is paused; A's run is the unpaused
\* one on the panel, and a stop callback resolved A: its stop is requested.
C10_Witness ==
  /\ _run_message_to_session[PANEL] = "B"
  /\ rec_status["B"] = "running"
  /\ rec_run["B"] # NoRun
  /\ rec_run["B"].message_id = PANEL
  /\ rec_run["B"].paused
  /\ Qualifies("A", PANEL)
  /\ resolve_attached_running_session_for_message(rec_run, PANEL) = "A"
  /\ handler = "A"
  /\ rec_run["A"].stop_requested

\* The sessions on whose stream pause_other_attached_runs calls pause(), in the
\* order of the calls: one visit of each session of the registry.
pause_calls(r, m, except_session) ==
  SelectSeq(Names, LAMBDA n : /\ n \in sessions
                              /\ n # except_session
                              /\ r[n] # NoRun
                              /\ rec_status[n] = "running"
                              /\ r[n].message_id = m
                              /\ ~r[n].paused)

\* The number of pause() calls on session n's stream.
PauseCount(calls_made, n) == Cardinality({i \in DOMAIN calls_made : calls_made[i] = n})

\* Session n is running with a run whose stream edits message m.
RunsOn(n, m) ==
  /\ n \in sessions
  /\ rec_status[n] = "running"
  /\ rec_run[n] # NoRun
  /\ rec_run[n].message_id = m

\* C11: pause_other_attached_runs(m, except_session) leaves every other running
\* session on m paused, with one pause() call on the stream of each that was
\* unpaused and none on the others, and leaves the excepted session, the runs
\* on other messages, the sessions not running and the runs already paused as
\* they were, for every message and every excepted session.
C11_PauseOthers ==
  \A m \in Surfaces, a \in NameSet \cup {None} :
    LET after == pause_other_attached_runs(rec_run, m, a)
        calls_made == pause_calls(rec_run, m, a)
    IN \A n \in NameSet :
         /\ (n # a /\ RunsOn(n, m)) => after[n].paused
         /\ PauseCount(calls_made, n) =
              IF n # a /\ RunsOn(n, m) /\ ~rec_run[n].paused THEN 1 ELSE 0
         /\ (n = a \/ ~RunsOn(n, m) \/ rec_run[n].paused) => after[n] = rec_run[n]
         /\ after[n] = [rec_run[n] EXCEPT !.paused = after[n].paused,
                                          !._resume_event = after[n]._resume_event]

\* Two running sessions on one message after the call that excepts the first:
\* the other one is paused, the excepted one is as it was, unpaused, and a
\* second call has no stream left to pause.
C11_Witness ==
  \E m \in Surfaces, a \in NameSet, n \in NameSet :
    /\ n # a
    /\ RunsOn(a, m) /\ ~rec_run[a].paused
    /\ RunsOn(n, m) /\ rec_run[n].paused
    /\ pause_calls(rec_run, m, a) = << >>
    /\ pause_calls(rec_run, m, n) = << a >>

\* ------------------------------------------------------------ the token of the conversation
\* The UUIDs that the engine's records carry.
Uuids == {"uuid-1", "uuid-2"}

OptionalUuid == {<< >>} \cup {<< u >> : u \in Uuids}

\* The records a codex process writes, as far as the token goes: the type, the
\* top-level "session_id", the "id" of the "thread" object (both explicit
\* fields) and the "id" of the "item" object (not one); a field is <<>> when
\* absent or not UUID-shaped. The "item" key comes before or after the "thread"
\* key of the record.
CodexEvents ==
  [type : {"thread.started", "item.completed"},
   session_id : OptionalUuid, thread_id : OptionalUuid, item_id : OptionalUuid,
   item_first : BOOLEAN]

\* The records a claude process writes: "system"/"init" records carry the
\* session_id.
ClaudeEvents == [init : BOOLEAN, session_id : OptionalUuid]

\* The first of the candidates that is UUID-shaped.
RECURSIVE FirstUuid(_)
FirstUuid(candidates) ==
  IF candidates = << >> THEN << >>
  ELSE IF Head(candidates) # << >> THEN Head(candidates)
  ELSE FirstUuid(Tail(candidates))

_extract_session_id_explicit(obj) == FirstUuid(<< obj.session_id, obj.thread_id >>)

\* The walk over the whole record: the top-level "session_id", then the values
\* in the order of their keys, the "id" of each object.
_find_first_uuid(obj) ==
  FirstUuid(<< obj.session_id >>
            \o (IF obj.item_first THEN << obj.item_id, obj.thread_id >>
                ELSE << obj.thread_id, obj.item_id >>))

_extract_claude_session_id(obj) == IF obj.init THEN obj.session_id ELSE << >>

\* The token of a "thread.started" record, were the walk to come first.
deep_scan_first(obj) ==
  IF _find_first_uuid(obj) # << >> THEN _find_first_uuid(obj)
  ELSE _extract_session_id_explicit(obj)

\* The token of a "thread.started" record: the explicit fields, or else the walk.
explicit_or_deep_scan(obj) ==
  IF _extract_session_id_explicit(obj) # << >> THEN _extract_session_id_explicit(obj)
  ELSE _find_first_uuid(obj)

\* rec.thread_id after _handle_json_event, from thread_id before it.
_handle_json_event(thread_id, obj) ==
  LET explicit_id == _extract_session_id_explicit(obj)
      early == IF thread_id = << >> /\ explicit_id # << >> THEN explicit_id ELSE thread_id
      session_id == explicit_or_deep_scan(obj)
  IN IF obj.type = "thread.started" /\ session_id # << >> /\ session_id # early
     THEN session_id
     ELSE early

\* rec.thread_id after _handle_claude_json_event.
_handle_claude_json_event(thread_id, obj) ==
  LET session_id == _extract_claude_session_id(obj) IN
  IF session_id # << >> /\ session_id # thread_id THEN session_id ELSE thread_id

\* The stdout records handled in one run.
MaxEvents == 2

\* _read_stdout decodes one more line of the process of session n and hands
\* the record to the handler of the session's engine, which saves the state
\* when it sets the token.
_read_stdout(n) ==
  /\ rec_run[n] # NoRun
  /\ Len(run_events) < MaxEvents
  /\ \E obj \in IF rec[n].engine = ENGINE_CLAUDE THEN ClaudeEvents ELSE CodexEvents :
       LET explicit == IF rec[n].engine = ENGINE_CLAUDE
                       THEN _extract_claude_session_id(obj)
                       ELSE _extract_session_id_explicit(obj)
           thread_id == IF rec[n].engine = ENGINE_CLAUDE
                        THEN _handle_claude_json_event(rec[n].thread_id, obj)
                        ELSE _handle_json_event(rec[n].thread_id, obj)
       IN /\ rec' = [rec EXCEPT ![n].thread_id = thread_id]
          /\ run_events' = Append(run_events, obj)
          /\ token_source' = IF thread_id = rec[n].thread_id THEN token_source
                              ELSE IF explicit # << >> THEN "explicit"
                              ELSE "deep scan"
  /\ UNCHANGED <<stream, manager, handler_pc, sessions, signals, stopping, edit_rejected,
                 call_log, log_files>>
  /\ IF rec' = rec THEN UNCHANGED disk ELSE save_state

\* Session A, of either engine, new or with the token of an earlier run, at
\* the start of a run: its process lives and has written nothing yet.
InitToken ==
  /\ InitStream({TRUE})
  /\ rec_status = [n \in NameSet |-> IF n = Names[1] THEN "running" ELSE "idle"]
  /\ rec_run = [n \in NameSet |-> IF n = Names[1] THEN SessionRun(1, 1) ELSE NoRun]
  /\ process = [t \in Tasks |-> IF t = 1 THEN "live" ELSE "none"]
  /\ task = [t \in Tasks |->
               IF t = 1 THEN [NoTask EXCEPT !.session = Names[1], !.pc = "wait_2024", !.readers = "reading", !.stream = "running",
                                            !.message_id = 1]
               ELSE NoTask]
  /\ _run_message_to_session = [m \in Surfaces |-> IF m = 1 THEN Names[1] ELSE None]
  /\ ui = [mode |-> "session", session |-> Names[1]]
  /\ handler = None
  /\ handler_pc = "none"
  /\ sessions = NameSet
  /\ \E engine \in ENGINE_CHOICES, thread_id \in OptionalUuid :
       rec = [n \in NameSet |->
                IF n = Names[1]
                THEN [SessionRecord("/srv", engine,
                                    IF engine = ENGINE_CLAUDE THEN DEFAULT_CLAUDE_MODEL
                                    ELSE DEFAULT_MODEL)
                        EXCEPT !.thread_id = thread_id,
                               !.last_stdout_log = << 1 >>, !.last_stderr_log = << 1 >>]
                ELSE SessionRecord("/srv", ENGINE_CODEX, DEFAULT_MODEL)]
  /\ signals = [t \in Tasks |-> {}]
  /\ stopping = [c \in Callers |-> NoWait]
  /\ state_file = << dumps(payload(sessions, rec_status, rec)) >>
  /\ tmp_file = << >>
  /\ run_events = << >>
  /\ token_source = "none"
  /\ call_log = << >>
  /\ log_files = [t \in Tasks |-> None]

NextToken == _read_stdout(Names[1])

SpecToken == InitToken /\ [][NextToken]_vars

\* C13: once an event of the run has recorded the token, no later event of the
\* run changes it; so a UUID that only the deep scan finds never replaces a
\* token taken from an explicit field.
C13_TokenKept ==
  [][token_source # "none" => rec'[Names[1]].thread_id = rec[Names[1]].thread_id]_vars

\* The last record handled has an explicit field with a UUID and another UUID
\* where only the walk over the record finds it, ahead of the explicit one.
BothTokens ==
  /\ run_events # << >>
  /\ LET obj == run_events[Len(run_events)] IN
       /\ "type" \in DOMAIN obj
       /\ obj.session_id = << >> /\ obj.thread_id # << >>
       /\ obj.item_id \notin {<< >>, obj.thread_id}
       /\ obj.item_first

\* C25: when a codex record carries a UUID in an explicit field, the token that
\* the record leaves recorded is never the different UUID of an unrelated field:
\* a session without a token gets the explicit one, a "thread.started" record
\* sets the explicit one, and a token that no explicit field gave is recorded
\* only from a record without an explicit UUID.
C25_ExplicitWins ==
  [][/\ Len(run_events') = Len(run_events) + 1
     /\ "type" \in DOMAIN run_events'[Len(run_events')]
     => LET obj == run_events'[Len(run_events')]
            explicit == FirstUuid(<< obj.session_id, obj.thread_id >>)
            before == rec[Names[1]].thread_id
            after == rec'[Names[1]].thread_id
        IN /\ explicit # << >> /\ (before = << >> \/ obj.type = "thread.started")
                => after = explicit
           /\ explicit # << >> /\ after # before => after = explicit
           /\ after \notin {before, explicit}
                => explicit = << >> /\ after = obj.item_id]_vars

\* C25's case: a "thread.started" record whose "item" carries another UUID ahead
\* of the explicit one was handled, and the explicit one is the token.
C25_Witness ==
  /\ BothTokens
  /\ run_events[Len(run_events)].type = "thread.started"
  /\ rec[Names[1]].thread_id = run_events[Len(run_events)].thread_id
  /\ token_source = "explicit"

\* ------------------------------------------------------------ stop, called at any time
\* The calls of stop in one behaviour.
MaxStops == 3

\* c calls stop(n); the call is logged with the state it finds.
stop_called(c, n) ==
  /\ stopping[c] = NoWait
  /\ Len(call_log) < MaxStops
  /\ rec_run' = stop_requested_of(rec_run, n)
  /\ manager_stop(c, rec_run, n)
  /\ call_log' = Append(call_log,
                        [caller |-> c,
                         found |-> IF ~stop_result(rec_run, n) THEN "no run"
                                   ELSE IF Live(rec_run, n) THEN "live" ELSE "exited",
                         returns |-> stop_result(rec_run, n)])
  /\ UNCHANGED <<stream, rec_status, process, task, _run_message_to_session, ui, handler,
                 handler_pc, sessions, rec, disk, run_events, token_source, edit_rejected,
                 log_files>>

\* c's stop(n) returns from its wait.
stop_waited(c) ==
  /\ stop_wait_ends(c)
  /\ UNCHANGED <<stream, aside, manager, handler_pc, sessions, rec, disk>>

\* Session A with a run in progress, its process alive.
InitStop ==
  /\ InitStream({TRUE})
  /\ rec_status = [n \in NameSet |-> IF n = Names[1] THEN "running" ELSE "idle"]
  /\ rec_run = [n \in NameSet |-> IF n = Names[1] THEN SessionRun(1, 1) ELSE NoRun]
  /\ process = [t \in Tasks |-> IF t = 1 THEN "live" ELSE "none"]
  /\ task = [t \in Tasks |->
               IF t = 1 THEN [NoTask EXCEPT !.session = Names[1], !.pc = "wait_2024", !.readers = "reading",
                                            !.stream = "running", !.message_id = 1]
               ELSE NoTask]
  /\ _run_message_to_session = [m \in Surfaces |-> IF m = 1 THEN Names[1] ELSE None]
  /\ ui = [mode |-> "session", session |-> Names[1]]
  /\ handler = None
  /\ handler_pc = "none"
  /\ sessions = NameSet
  /\ rec = [n \in NameSet |->
              IF n = Names[1]
              THEN [SessionRecord("/srv", ENGINE_CODEX, DEFAULT_MODEL)
                      EXCEPT !.last_stdout_log = << 1 >>, !.last_stderr_log = << 1 >>]
              ELSE SessionRecord("/srv", ENGINE_CODEX, DEFAULT_MODEL)]
  /\ signals = [t \in Tasks |-> {}]
  /\ stopping = [c \in Callers |-> NoWait]
  /\ state_file = << dumps(payload(sessions, rec_status, rec)) >>
  /\ tmp_file = << >>
  /\ run_events = << >>
  /\ token_source = "none"
  /\ call_log = << >>
  /\ log_files = [t \in Tasks |-> IF t = 1 THEN Names[1] ELSE None]

NextStop ==
  \/ \E c \in Callers : stop_called(c, Names[1])
  \/ \E c \in Callers : stop_waited(c)
  \/ \E c \in Callers : grace_period_passes(c)
  \/ \E t \in Tasks : process_exits(t)
  \/ \E t \in Tasks : run_prompt_exited(t)
  \/ \E t \in Tasks : run_prompt_finish(t)

SpecStop == InitStop /\ [][NextStop]_vars

\* A caller that waits in wait_for is resumed, and its timeout passes.
SpecStopFair ==
  /\ SpecStop
  /\ \A c \in Callers : WF_vars(stop_waited(c)) /\ WF_vars(grace_period_passes(c))

\* stop, with engine processes whose pipes outlive them.
NextReaders ==
  \/ NextStop
  \/ \E t \in Tasks : process_exits_pipes_open(t)
  \/ \E t \in Tasks : pipes_close(t)

SpecReaders == InitStop /\ [][NextReaders]_vars

\* A caller that waits in wait_for is resumed and its timeout passes; the
\* engine process ends, and run_prompt is resumed when its awaits are over.
\* Nothing ends a process outside the group.
SpecReadersFair ==
  /\ SpecReaders
  /\ \A c \in Callers : WF_vars(stop_waited(c)) /\ WF_vars(grace_period_passes(c))
  /\ WF_vars(\E t \in Tasks : process_exits(t) \/ process_exits_pipes_open(t))
  /\ WF_vars(\E t \in Tasks : run_prompt_exited(t) \/ run_prompt_finish(t))

\* The last results an earlier run can have left.
LAST_RESULTS == {"never", "success", "error", "stopped"}

\* ------------------------------------------------------------ clear_session_state, called at any time
\* The calls of clear_session_state in one behaviour.
MaxClears == 2

\* clear_session_state(n) to its return; the call is logged with the record it
\* finds.
clear_session_state(n) ==
  /\ handler = None
  /\ Len(call_log) < MaxClears
  /\ IF clear_fails(rec_run, n)
     THEN UNCHANGED <<rec, rec_status, rec_run, log_files, disk>>
     ELSE /\ log_files' = _delete_session_artifacts(log_files, n)
          /\ rec' = [rec EXCEPT ![n] = cleared(@)]
          /\ rec_status' = [rec_status EXCEPT ![n] = "idle"]
          /\ rec_run' = [rec_run EXCEPT ![n] = NoRun]
          /\ UNCHANGED sessions
          /\ save_state
  /\ call_log' = Append(call_log,
                        [session |-> n,
                         found |-> IF n \notin sessions THEN "unknown"
                                   ELSE IF rec_run[n] = NoRun THEN "no run"
                                   ELSE IF Live(rec_run, n) THEN "live" ELSE "exited",
                         before |-> rec[n],
                         returns |-> ~clear_fails(rec_run, n)])
  /\ UNCHANGED <<stream, process, task, _run_message_to_session, ui, handler, handler_pc,
                 sessions, signals, stopping, run_events, token_source, edit_rejected>>

\* Session A after an earlier run (task 2) or none, with a run in progress
\* (task 1) or none; a token recorded or not; its deletion requested or not
\* while it runs.
InitClear ==
  /\ InitStream({TRUE})
  /\ \E running \in BOOLEAN, thread_id \in OptionalUuid, pending_delete \in BOOLEAN,
        earlier \in LAST_RESULTS :
       /\ pending_delete => running
       /\ thread_id # << >> => running \/ earlier # "never"
       /\ rec_status = [n \in NameSet |->
                          IF n # Names[1] THEN "idle"
                          ELSE IF running THEN "running"
                          ELSE IF earlier \in {"error", "stopped"} THEN earlier ELSE "idle"]
       /\ rec_run = [n \in NameSet |-> IF n = Names[1] /\ running THEN SessionRun(1, 1) ELSE NoRun]
       /\ process = [t \in Tasks |->
                       IF t = 1 THEN (IF running THEN "live" ELSE "none")
                       ELSE IF earlier # "never" THEN "exited" ELSE "none"]
       /\ task = [t \in Tasks |->
                    IF t = 1
                    THEN (IF running
                          THEN [NoTask EXCEPT !.session = Names[1], !.pc = "wait_2024", !.readers = "reading",
                                              !.stream = "running", !.message_id = 1]
                          ELSE NoTask)
                    ELSE IF earlier # "never"
                    THEN [NoTask EXCEPT !.pc = "done", !.stream = "stopped"]
                    ELSE NoTask]
       /\ _run_message_to_session =
            [m \in Surfaces |-> IF m = 1 /\ running THEN Names[1] ELSE None]
       /\ rec = [n \in NameSet |->
                   IF n # Names[1] THEN SessionRecord("/srv", ENGINE_CODEX, DEFAULT_MODEL)
                   ELSE [SessionRecord("/srv", ENGINE_CODEX, DEFAULT_MODEL)
                           EXCEPT !.thread_id = thread_id,
                                  !.last_result = earlier,
                                  !.pending_delete = pending_delete,
                                  !.last_stdout_log = IF running THEN << 1 >>
                                                      ELSE IF earlier # "never" THEN << 2 >>
                                                      ELSE << >>,
                                  !.last_stderr_log = IF running THEN << 1 >>
                                                      ELSE IF earlier # "never" THEN << 2 >>
                                                      ELSE << >>,
                                  !.last_run_duration_s =
                                     IF ~running /\ earlier # "never" THEN << 0 >> ELSE << >>]]
       /\ log_files = [t \in Tasks |->
                         IF (t = 1 /\ running) \/ (t = 2 /\ earlier # "never")
                         THEN Names[1] ELSE None]
  /\ ui = [mode |-> "session", session |-> Names[1]]
  /\ handler = None
  /\ handler_pc = "none"
  /\ sessions = NameSet
  /\ signals = [t \in Tasks |-> {}]
  /\ stopping = [c \in Callers |-> NoWait]
  /\ state_file = << dumps(payload(sessions, rec_status, rec)) >>
  /\ tmp_file = << >>
  /\ run_events = << >>
  /\ token_source = "none"
  /\ call_log = << >>

NextClear ==
  \/ clear_session_state(Names[1])
  \/ \E t \in Tasks : process_exits(t)
  \/ \E t \in Tasks : run_prompt_exited(t)
  \/ \E t \in Tasks : run_prompt_finish(t)

SpecClear == InitClear /\ [][NextClear]_vars

\* ------------------------------------------------------------ the logs of sessions with like names
\* Names that create_session accepts (_safe_session_name: a-zA-Z0-9._-).
ArtifactNames == {"S", "S_1", "T"}

\* delete_session(n), to its return or its first save_state; the call is
\* logged. A session whose process lives is marked pending_delete.
delete_session(n) ==
  /\ handler = None
  /\ Len(call_log) < MaxClears
  /\ UNCHANGED <<stream, rec_status, rec_run, process, task, _run_message_to_session, ui,
                 signals, stopping, run_events, token_source, edit_rejected>>
  /\ IF n \notin sessions
     THEN UNCHANGED <<rec, sessions, log_files, disk, handler, handler_pc>>
     ELSE IF rec_run[n] # NoRun /\ Live(rec_run, n)
     THEN /\ rec' = [rec EXCEPT ![n].pending_delete = TRUE]
          /\ handler' = n
          /\ handler_pc' = "save_state_1820"
          /\ UNCHANGED <<sessions, log_files>>
          /\ save_state
     ELSE /\ log_files' = _delete_session_artifacts(log_files, n)
          /\ sessions' = sessions \ {n}
          /\ UNCHANGED <<rec, handler, handler_pc>>
          /\ save_state
  /\ call_log' = Append(call_log, [session |-> n,
                                   found |-> IF n \in sessions THEN "deleted" ELSE "unknown",
                                   before |-> rec[n],
                                   returns |-> n \in sessions])

\* Three sessions, none running; each of the runs that are over left its logs
\* in LOG_DIR under the name of its session, and the record of a session names
\* the logs of its last run.
InitArtifacts ==
  /\ InitStream({TRUE})
  /\ \E owner \in [Tasks -> ArtifactNames \cup {None}] :
       /\ log_files = owner
       /\ rec = [n \in ArtifactNames |->
                   LET runs == {t \in Tasks : owner[t] = n}
                       last == IF runs = {} THEN << >>
                               ELSE << CHOOSE t \in runs : \A u \in runs : u <= t >>
                   IN [SessionRecord("/srv", ENGINE_CODEX, DEFAULT_MODEL)
                         EXCEPT !.last_result = IF runs = {} THEN "never" ELSE "success",
                                !.last_stdout_log = last,
                                !.last_stderr_log = last,
                                !.last_run_duration_s = IF runs = {} THEN << >> ELSE << 0 >>]]
       /\ process = [t \in Tasks |-> IF owner[t] = None THEN "none" ELSE "exited"]
       /\ task = [t \in Tasks |->
                    IF owner[t] = None THEN NoTask
                    ELSE [NoTask EXCEPT !.pc = "done", !.stream = "stopped"]]
  /\ rec_status = [n \in ArtifactNames |-> "idle"]
  /\ rec_run = [n \in ArtifactNames |-> NoRun]
  /\ _run_message_to_session = [m \in Surfaces |-> None]
  /\ ui = [mode |-> "sessions", session |-> None]
  /\ handler = None
  /\ handler_pc = "none"
  /\ sessions = ArtifactNames
  /\ signals = [t \in Tasks |-> {}]
  /\ stopping = [c \in Callers |-> NoWait]
  /\ state_file = << dumps(payload(sessions, rec_status, rec)) >>
  /\ tmp_file = << >>
  /\ run_events = << >>
  /\ token_source = "none"
  /\ call_log = << >>

NextArtifacts ==
  \/ \E n \in ArtifactNames : clear_session_state(n)
  \/ \E n \in ArtifactNames : delete_session(n)

SpecArtifacts == InitArtifacts /\ [][NextArtifacts]_vars

\* ------------------------------------------------------------ the records of a codex run as text
RECURSIVE FirstChars(_, _)
\* Python s[:k].
FirstChars(s, k) ==
  IF k <= 0 \/ s = <<>> THEN <<>>
  ELSE IF s[1].n >= k THEN << [s[1] EXCEPT !.n = k] >>
  ELSE << s[1] >> \o FirstChars(Tail(s), k - s[1].n)

\* _truncate_text: a text longer than the limit keeps its head and its tail
\* around a marker of 12 characters between two newlines.
_truncate_text(text, limit) ==
  IF StrLen(text) <= limit THEN text
  ELSE LET head == Max(0, (limit \div 2) - 10)
           tail == Max(0, limit - head - 20)
       IN FirstChars(text, head)
            \o << Run(NL, 1, 0), Run("~", 12, 0), Run(NL, 1, 0) >>
            \o (IF tail = 0 THEN text ELSE LastChars(text, tail))

UI_TAIL_MAX_BYTES == 65536

\* The texts the records carry: the text of a reasoning item, of an agent
\* message, a streamed delta, two commands, and the outputs of a command
\* (none, a line, more than the tail of the log holds).
ReasoningText == << Run("r", 1000, 0) >>

Commands == { << Run("ls", 1, 0) >>, << Run("cat", 1, 0) >> }

Outputs == { <<>>, << Run("o", 10, 0), Run(NL, 1, 0) >>, << Run("o", 65000, 0) >> }

\* An item of a record; a field is <<>> when the item has none.
Item(type, text, command, status, aggregated_output, exit_code) ==
  [type |-> type, text |-> text, command |-> command, status |-> status,
   aggregated_output |-> aggregated_output, exit_code |-> exit_code]

Items ==
  { Item("reasoning", ReasoningText, <<>>, "", <<>>, <<>>),
    Item("agent_message", << Run("m", 5, 0) >>, <<>>, "", <<>>, <<>>) }
  \cup { Item("command_execution", <<>>, c, st, out, code) :
           c \in Commands, st \in {"in_progress", "completed"}, out \in Outputs,
           code \in {<<>>, << 0 >>} }

\* The records a codex process writes, as far as the text goes: the item
\* records ("item.started", "item.completed" with the item) and the "text"
\* records with their delta.
ItemEvents ==
  [type : {"item.started", "item.completed"}, item : Items, delta : {<<>>}]
  \cup { [type |-> "text", item |-> Item("", <<>>, <<>>, "", <<>>, <<>>),
          delta |-> << Run("d", 3, 0) >>] }

\* "Never surface hidden reasoning in chat logs."
item_is_hidden(item_type) == item_type = "reasoning"

\* The command is shown at every record of it.
cmd_is_always_new(cmd_s, last_cmd) == TRUE

\* cmd_s != last_cmd
cmd_is_new(cmd_s, last_cmd) == << cmd_s >> # last_cmd

\* The command_execution branch of _handle_json_event (rstrip, limit 2000) and
\* of _preview_from_stdout_log (no rstrip, limit 800): the texts it appends
\* and the last command after it.
command_execution(last_cmd, obj, limit, rstrip) ==
  LET item == obj.item
      is_start == obj.type = "item.started" \/ item.status = "in_progress"
      is_done == obj.type = "item.completed" \/ item.status \in {"completed", "failed"}
      cmd_s == Strip(item.command, WHITESPACE)
      shown == cmd_s # <<>> /\ (is_start \/ is_done) /\ cmd_is_new(cmd_s, last_cmd)
      out == item.aggregated_output
  IN [texts |->
        (IF shown
         THEN << << Run(NL, 1, 0), Run("$ ", 1, 0) >> \o cmd_s \o << Run(NL, 1, 0) >> >>
         ELSE <<>>)
        \o (IF is_done /\ Strip(out, WHITESPACE) # <<>>
            THEN << _truncate_text(IF rstrip THEN RStrip(out, {NL}) ELSE out, limit)
                      \o << Run(NL, 1, 0) >> >>
            ELSE <<>>)
        \o (IF is_done /\ item.exit_code # <<>>
            THEN << << Run("(exit_code: ", 1, 0), Run("0", 1, 0), Run(")", 1, 0), Run(NL, 1, 0) >> >>
            ELSE <<>>),
      last_cmd |-> IF shown THEN << cmd_s >> ELSE last_cmd]

\* The arguments of the add_text calls of _handle_json_event for one record,
\* in order, and rec.run.last_cmd after it.
_handle_json_event_item(last_cmd, obj) ==
  IF obj.type \in {"item.started", "item.completed"}
  THEN IF item_is_hidden(obj.item.type) THEN [texts |-> <<>>, last_cmd |-> last_cmd]
       ELSE IF obj.item.type = "command_execution"
       THEN command_execution(last_cmd, obj, 2000, TRUE)
       ELSE [texts |-> IF obj.item.text # <<>> THEN << obj.item.text >>
                       ELSE IF obj.delta # <<>> THEN << obj.delta >> ELSE <<>>,
             last_cmd |-> last_cmd]
  ELSE [texts |-> IF obj.delta # <<>> THEN << obj.delta >> ELSE <<>>, last_cmd |-> last_cmd]

RECURSIVE AppendTexts(_, _, _)
\* TelegramStream.add_text, call after call: k calls were made before.
AppendTexts(segments, texts, k) ==
  IF texts = <<>> THEN segments
  ELSE AppendTexts(AppendText(segments, Tagged(texts[1], k + 1)), Tail(texts), k + 1)

\* The records handled in one run.
MaxItemEvents == 3

\* _read_stdout writes one more line of the process of session n to the log
\* and hands the record to _handle_json_event, which awaits its add_text calls.
_read_stdout_item(n) ==
  /\ rec_run[n] # NoRun
  /\ Len(run_events) < MaxItemEvents
  /\ \E obj \in ItemEvents :
       LET handled == _handle_json_event_item(rec_run[n].last_cmd, obj) IN
       /\ run_events' = Append(run_events, obj)
       /\ rec_run' = [rec_run EXCEPT ![n].last_cmd = handled.last_cmd]
       /\ IF handled.texts = <<>>
          THEN UNCHANGED <<streamData, streamEvents>>
          ELSE /\ ClearHeaderOnFirstLog
               /\ log_segments' = AppendTexts(log_segments, handled.texts, Len(calls))
               /\ calls' = calls \o [i \in DOMAIN handled.texts |->
                                       [kind |-> "text", content |-> handled.texts[i]]]
               /\ _dirty' = TRUE
               /\ UNCHANGED <<footer_html, footer_plain_len, wrap_log_in_pre, _reply_markup,
                              _stop, _resume_event>>
  /\ UNCHANGED <<streamLoop, environment, rec_status, process, task, _run_message_to_session,
                 ui, handler, handler_pc, sessions, rec, signals, stopping, disk,
                 token_source, edit_rejected, call_log, log_files>>

\* json.dumps of a record, one line of the log: its texts between the
\* characters of the syntax, a newline in a text written as two characters.
Line(obj) ==
  LET escaped(text) == [i \in DOMAIN text |->
                          IF text[i].c = NL THEN Run("\\n", text[i].n, 0) ELSE text[i]]
  IN << Run("{", 40, 0) >> \o escaped(obj.item.text) \o escaped(obj.item.command)
       \o escaped(obj.item.aggregated_output) \o escaped(obj.delta) \o << Run("}", 2, 0) >>

RECURSIVE _tail_text_file(_, _)
\* The last max_bytes bytes of the log: the records whose lines are whole in
\* it, and before them what is left of the line that the cut falls in.
_tail_text_file(events, max_bytes) ==
  IF events = <<>> \/ max_bytes = 0 THEN [fragment |-> <<>>, lines |-> <<>>]
  ELSE LET last == events[Len(events)]
           size == StrLen(Line(last)) + 1
       IN IF size <= max_bytes
          THEN LET before == _tail_text_file(Front(events), max_bytes - size) IN
               [fragment |-> before.fragment, lines |-> Append(before.lines, last)]
          ELSE [fragment |-> LastChars(Line(last), max_bytes - 1), lines |-> <<>>]

RECURSIVE PreviewPieces(_, _)
\* The loop of _preview_from_stdout_log over the lines that decode.
PreviewPieces(lines, last_cmd) ==
  IF lines = <<>> THEN <<>>
  ELSE LET obj == lines[1]
           pieces == IF obj.type \in {"item.started", "item.completed"}
                     THEN IF item_is_hidden(obj.item.type)
                          THEN [texts |-> <<>>, last_cmd |-> last_cmd]
                          ELSE IF obj.item.type = "command_execution"
                          THEN command_execution(last_cmd, obj, 800, FALSE)
                          ELSE [texts |-> IF obj.item.text # <<>> THEN << obj.item.text >>
                                          ELSE <<>>,
                                last_cmd |-> last_cmd]
                     ELSE [texts |-> IF obj.delta # <<>> THEN << obj.delta >> ELSE <<>>,
                           last_cmd |-> last_cmd]
       IN pieces.texts \o PreviewPieces(Tail(lines), pieces.last_cmd)

\* _preview_from_stdout_log of the log that holds the records: a line that
\* does not decode is taken as it is.
_preview_from_stdout_log(events, max_chars) ==
  LET raw == _tail_text_file(events, UI_TAIL_MAX_BYTES)
      first == IF Strip(raw.fragment, WHITESPACE) # <<>> THEN << raw.fragment >> ELSE <<>>
  IN _truncate_text(Strip(Flatten(first \o PreviewPieces(raw.lines, <<>>)), WHITESPACE),
                    max_chars)

\* Session A of engine codex, running: its process has written nothing yet.
InitEvents ==
  /\ InitStream({TRUE})
  /\ rec_status = [n \in NameSet |-> IF n = Names[1] THEN "running" ELSE "idle"]
  /\ rec_run = [n \in NameSet |->
                  IF n = Names[1]
                  THEN [task |-> 1, message_id |-> 1, paused |-> FALSE,
                        stop_requested |-> FALSE, _resume_event |-> TRUE, last_cmd |-> <<>>]
                  ELSE NoRun]
  /\ process = [t \in Tasks |-> IF t = 1 THEN "live" ELSE "none"]
  /\ task = [t \in Tasks |->
               IF t = 1 THEN [NoTask EXCEPT !.session = Names[1], !.pc = "wait_2024", !.readers = "reading",
                                            !.stream = "running", !.message_id = 1]
               ELSE NoTask]
  /\ _run_message_to_session = [m \in Surfaces |-> IF m = 1 THEN Names[1] ELSE None]
  /\ ui = [mode |-> "session", session |-> Names[1]]
  /\ handler = None
  /\ handler_pc = "none"
  /\ sessions = NameSet
  /\ rec = [n \in NameSet |->
              IF n = Names[1]
              THEN [SessionRecord("/srv", ENGINE_CODEX, DEFAULT_MODEL)
                      EXCEPT !.last_stdout_log = << 1 >>, !.last_stderr_log = << 1 >>]
              ELSE SessionRecord("/srv", ENGINE_CODEX, DEFAULT_MODEL)]
  /\ signals = [t \in Tasks |-> {}]
  /\ stopping = [c \in Callers |-> NoWait]
  /\ state_file = << dumps(payload(sessions, rec_status, rec)) >>
  /\ tmp_file = << >>
  /\ run_events = << >>
  /\ token_source = "none"
  /\ call_log = << >>
  /\ log_files = [t \in Tasks |-> IF t = 1 THEN Names[1] ELSE None]

NextEvents == _read_stdout_item(Names[1])

SpecEvents == InitEvents /\ [][NextEvents]_vars

\* ------------------------------------------------------------ the command line of the engine
\* One element of argv whose text is taken whole.
Arg(text) == << Run(text, 1, 0) >>

\* The "end of options" element, "--".
END_OF_OPTS == << Run("-", 2, 0) >>

\* The prompts given to a run, in runs of single characters: empty, blank, plain,
\* with a dash first, with a dash after blanks or a newline, "--" itself, and
\* with a dash further on.
Prompts ==
  { << >>,
    << Run(" ", 1, 0) >>,
    << Run("h", 1, 0) >>,
    << Run("h", 1, 0), Run("-", 1, 0) >>,
    << Run(" ", 1, 0), Run("h", 1, 0), Run(" ", 1, 0), Run("-", 1, 0) >>,
    << Run("-", 1, 0), Run("h", 1, 0) >>,
    << Run("-", 2, 0) >>,
    << Run(" ", 2, 0), Run("-", 2, 0), Run("h", 1, 0) >>,
    << Run(NL, 1, 0), Run("-", 1, 0), Run(" ", 1, 0), Run("h", 1, 0) >> }

RUN_MODES == {"new", "continue"}

\* str.startswith for a prefix of one character.
startswith(s, prefix) == s # << >> /\ s[1].c = prefix

\* The test of the prompt as it is, without lstrip.
needs_end_of_opts_as_is(prompt_s) == startswith(prompt_s, "-")

needs_end_of_opts(prompt_s) == startswith(LStrip(prompt_s, WHITESPACE), "-")

\* argv of a codex run of record r; git tells whether r.path lies in a git
\* repository.
_build_codex_cmd(r, prompt, run_mode, git) ==
  LET base == << Arg("codex"), Arg("exec"), Arg("--json"), Arg("--sandbox"),
                 Arg("workspace-write"), Arg("-c"), Arg("approval_policy=never") >>
              \o (IF git THEN << Arg("--add-dir"), Arg(".git") >>
                  ELSE << Arg("--skip-git-repo-check") >>)
              \o << Arg("-C"), Arg(r.path) >>
              \o << Arg("--model"), Arg(r.model) >>
              \o << Arg("-c"), Arg("model_reasoning_effort=" \o r.reasoning_effort) >>
  IN IF run_mode = "continue" /\ r.thread_id # << >>
     THEN base \o << Arg("resume"), Arg(r.thread_id[1]) >>
               \o (IF needs_end_of_opts(prompt) THEN << END_OF_OPTS >> ELSE << >>)
               \o << prompt >>
     ELSE base \o (IF needs_end_of_opts(prompt) THEN << END_OF_OPTS >> ELSE << >>)
               \o << prompt >>

\* argv of a claude run of record r.
_build_claude_cmd(r, prompt, run_mode) ==
  << Arg("claude"), Arg("-p"), Arg("--verbose"), Arg("--output-format"), Arg("stream-json"),
     Arg("--include-partial-messages"), Arg("--permission-mode"), Arg("bypassPermissions"),
     Arg("--model"), Arg(r.model) >>
  \o (IF run_mode = "continue" /\ r.thread_id # << >>
      THEN << Arg("-r"), Arg(r.thread_id[1]) >> ELSE << >>)
  \o (IF needs_end_of_opts(prompt) THEN << END_OF_OPTS >> ELSE << >>)
  \o << prompt >>

\* The command lines built in one behaviour.
MaxBuilds == 2

\* run_prompt builds the command line of session n's engine for a prompt and a
\* run mode; the call is logged with what it was given.
build_cmd(n) ==
  /\ Len(call_log) < MaxBuilds
  /\ \E prompt \in Prompts, run_mode \in RUN_MODES, git \in BOOLEAN :
       call_log' = Append(call_log,
                          [engine |-> rec[n].engine, thread_id |-> rec[n].thread_id,
                           prompt |-> prompt, run_mode |-> run_mode,
                           cmd |-> IF rec[n].engine = ENGINE_CLAUDE
                                   THEN _build_claude_cmd(rec[n], prompt, run_mode)
                                   ELSE _build_codex_cmd(rec[n], prompt, run_mode, git)])
  /\ UNCHANGED <<stream, manager, handler_pc, sessions, rec, signals, stopping, disk,
                 run_events, token_source, edit_rejected, log_files>>

NextCmd == build_cmd(Names[1])

\* Session A of either engine, with or without the token of an earlier run.
SpecCmd == InitToken /\ [][NextCmd]_vars

\* ------------------------------------------------------------ the state file
\* write_text writes STATE_PATH itself.
target_path == "state"

\* The file that write_text writes: STATE_PATH with the suffix ".tmp".
tmp_path == "tmp"

\* A log reference t > 0 is the path of LOG_DIR's file of task t, and -t is the
\* path of the same file in LEGACY_LOG_DIR, where earlier versions kept it.
_rewrite_legacy_log_path(path_str) == IF path_str < 0 THEN -path_str ELSE path_str

\* <<name>> if the name is one a session can have, else <<>>.
_safe_session_name(name) == IF name \in NameSet THEN << name >> ELSE << >>

\* The registry that _load_state makes of the file: nothing if there is no
\* file or its text does not parse.
_load_state(file) ==
  IF file = << >> \/ ~file[1].whole
  THEN [names |-> {}, status |-> [n \in NameSet |-> "idle"],
        records |-> [n \in NameSet |-> SessionRecord("/srv", ENGINE_CODEX, DEFAULT_MODEL)]]
  ELSE LET raw == file[1].payload
           names == {n \in DOMAIN raw : _safe_session_name(n) # << >> /\ raw[n].path # ""}
           engine_val(n) == IF raw[n].engine \in ENGINE_CHOICES THEN raw[n].engine ELSE ENGINE_CODEX
           log(l) == IF l = << >> THEN l ELSE << _rewrite_legacy_log_path(l[1]) >>
       IN [names |-> names,
           status |-> [n \in NameSet |->
                         IF n \notin names \/ raw[n].status = "running" THEN "idle"
                         ELSE raw[n].status],
           records |-> [n \in NameSet |->
                          IF n \notin names THEN SessionRecord("/srv", ENGINE_CODEX, DEFAULT_MODEL)
                          ELSE [path |-> raw[n].path,
                                engine |-> engine_val(n),
                                thread_id |-> raw[n].thread_id,
                                model |-> IF raw[n].model # "" THEN raw[n].model
                                          ELSE IF engine_val(n) = ENGINE_CLAUDE
                                          THEN DEFAULT_CLAUDE_MODEL ELSE DEFAULT_MODEL,
                                reasoning_effort |-> IF raw[n].reasoning_effort # ""
                                                     THEN raw[n].reasoning_effort
                                                     ELSE DEFAULT_REASONING_EFFORT,
                                last_result |-> IF raw[n].last_result \in LAST_RESULTS
                                                THEN raw[n].last_result ELSE "never",
                                last_stdout_log |-> log(raw[n].last_stdout_log),
                                last_stderr_log |-> log(raw[n].last_stderr_log),
                                last_run_duration_s |-> raw[n].last_run_duration_s,
                                pending_delete |-> raw[n].pending_delete]]]

\* The models and reasoning efforts that the handlers set.
Models == {DEFAULT_MODEL, "gpt-5.2-codex"}

Efforts == {"high", "xhigh"}

\* The handler calls and restarts of the bot in one behaviour.
MaxStoreOps == 4

\* Task t is in _atomic_write_text, and so holds _state_lock.
Writes(t) == task[t].pc \in {"to_thread_1727", "write_text_587", "os_replace_588"}

\* save_state is called by t: it takes _state_lock and makes the text of the
\* registry, or waits for the lock.
save_state_called(t) ==
  task' = [task EXCEPT ![t] =
             IF \E o \in Tasks : Writes(o)
             THEN [@ EXCEPT !.pc = "lock_1702"]
             ELSE [@ EXCEPT !.pc = "to_thread_1727",
                            !.text = << dumps(payload(sessions', rec_status', rec')) >>]]

\* "model_pick" and the text of mode "model_custom": the model is set and
\* save_state called.
model_pick(t) ==
  /\ task[t].pc = "none"
  /\ Len(call_log) < MaxStoreOps
  /\ ui.session \in sessions
  /\ \E model \in Models : rec' = [rec EXCEPT ![ui.session].model = model]
  /\ UNCHANGED <<sessions, rec_status>>
  /\ save_state_called(t)
  /\ call_log' = Append(call_log, "model_pick")
  /\ UNCHANGED <<stream, rec_run, process, _run_message_to_session, ui, handler,
                 handler_pc, signals, stopping, disk, run_events, token_source, edit_rejected,
                 log_files>>

\* "reasoning_pick": the effort of a codex session is set and save_state called.
reasoning_pick(t) ==
  /\ task[t].pc = "none"
  /\ Len(call_log) < MaxStoreOps
  /\ ui.session \in sessions
  /\ rec[ui.session].engine # ENGINE_CLAUDE
  /\ \E level \in Efforts : rec' = [rec EXCEPT ![ui.session].reasoning_effort = level]
  /\ UNCHANGED <<sessions, rec_status>>
  /\ save_state_called(t)
  /\ call_log' = Append(call_log, "reasoning_pick")
  /\ UNCHANGED <<stream, rec_run, process, _run_message_to_session, ui, handler,
                 handler_pc, signals, stopping, disk, run_events, token_source, edit_rejected,
                 log_files>>

\* _state_lock is released to t, which makes the text of the registry.
lock_acquired(t) ==
  /\ task[t].pc = "lock_1702"
  /\ \A o \in Tasks : ~Writes(o)
  /\ task' = [task EXCEPT ![t].pc = "to_thread_1727",
                          ![t].text = << dumps(payload(sessions, rec_status, rec)) >>]
  /\ UNCHANGED <<stream, aside, rec_status, rec_run, process, _run_message_to_session, ui,
                 handler, handler_pc, sessions, rec, signals, stopping, disk>>

\* write_text, in the thread: the file is opened, emptied and part of the
\* text written (whole = FALSE), or all of it.
write_text(t, whole) ==
  /\ task[t].pc = IF whole THEN "write_text_587" ELSE "to_thread_1727"
  /\ IF tmp_path = "tmp"
     THEN /\ tmp_file' = << [task[t].text[1] EXCEPT !.whole = whole] >>
          /\ UNCHANGED state_file
     ELSE /\ state_file' = << [task[t].text[1] EXCEPT !.whole = whole] >>
          /\ UNCHANGED tmp_file
  /\ task' = [task EXCEPT ![t].pc = IF whole THEN "os_replace_588" ELSE "write_text_587"]
  /\ UNCHANGED <<stream, aside, rec_status, rec_run, process, _run_message_to_session, ui,
                 handler, handler_pc, sessions, rec, signals, stopping>>

\* write_text raises (the disk is full): save_state ends on the exception.
write_text_fails(t) ==
  /\ task[t].pc = "write_text_587"
  /\ task' = [task EXCEPT ![t] = NoTask]
  /\ UNCHANGED <<stream, aside, rec_status, rec_run, process, _run_message_to_session, ui,
                 handler, handler_pc, sessions, rec, signals, stopping, disk>>

\* os.replace(tmp_path, path), and save_state returns.
os_replace(t) ==
  /\ task[t].pc = "os_replace_588"
  /\ IF tmp_path = "tmp"
     THEN state_file' = tmp_file /\ tmp_file' = << >>
     ELSE UNCHANGED disk
  /\ task' = [task EXCEPT ![t] = NoTask]
  /\ UNCHANGED <<stream, aside, rec_status, rec_run, process, _run_message_to_session, ui,
                 handler, handler_pc, sessions, rec, signals, stopping>>

\* The bot ends wherever it is (a crash, a kill, the restart command) and a
\* new SessionManager loads the file.
restart ==
  /\ Len(call_log) < MaxStoreOps
  /\ LET loaded == _load_state(state_file) IN
       /\ sessions' = loaded.names
       /\ rec_status' = loaded.status
       /\ rec' = loaded.records
  /\ task' = [t \in Tasks |-> NoTask]
  /\ call_log' = Append(call_log, "restart")
  /\ UNCHANGED <<stream, rec_run, process, _run_message_to_session, ui, handler, handler_pc,
                 signals, stopping, disk, run_events, token_source, edit_rejected, log_files>>

\* Sessions A and B, created and saved; A of either engine, with any model and
\* effort, a token or none, never run, or run to any result, or running (from
\* run_prompt's first save_state to its spawn the record has no run yet).
InitStore ==
  /\ InitStream({TRUE})
  /\ rec_run = [n \in NameSet |-> NoRun]
  /\ process = [t \in Tasks |-> "none"]
  /\ task = [t \in Tasks |-> NoTask]
  /\ _run_message_to_session = [m \in Surfaces |-> None]
  /\ ui = [mode |-> "session", session |-> Names[1]]
  /\ handler = None
  /\ handler_pc = "none"
  /\ sessions = NameSet
  /\ \E engine \in ENGINE_CHOICES, effort \in {DEFAULT_REASONING_EFFORT},
        thread_id \in {<< >>, << "uuid-1" >>},
        status \in {"idle", "running", "error", "stopped"}, last_result \in LAST_RESULTS :
       /\ status = "error" => last_result = "error"
       /\ status = "stopped" => last_result = "stopped"
       /\ status = "idle" => last_result \in {"never", "success"}
       /\ thread_id # << >> => status = "running" \/ last_result # "never"
       /\ rec_status = [n \in NameSet |-> IF n = Names[1] THEN status ELSE "idle"]
       /\ rec = [n \in NameSet |->
                   IF n # Names[1] THEN SessionRecord("/srv", ENGINE_CODEX, DEFAULT_MODEL)
                   ELSE [SessionRecord("/srv", engine,
                                       IF engine = ENGINE_CLAUDE THEN DEFAULT_CLAUDE_MODEL
                                       ELSE DEFAULT_MODEL)
                           EXCEPT !.reasoning_effort = effort,
                                  !.thread_id = thread_id,
                                  !.last_result = last_result,
                                  !.last_stdout_log =
                                     IF status = "running" \/ last_result # "never"
                                     THEN << 1 >> ELSE << >>,
                                  !.last_stderr_log =
                                     IF status = "running" \/ last_result # "never"
                                     THEN << 1 >> ELSE << >>,
                                  !.last_run_duration_s =
                                     IF status # "running" /\ last_result # "never"
                                     THEN << 0 >> ELSE << >>]]
  /\ signals = [t \in Tasks |-> {}]
  /\ stopping = [c \in Callers |-> NoWait]
  /\ state_file = << dumps(payload(sessions, rec_status, rec)) >>
  /\ tmp_file = << >>
  /\ run_events = << >>
  /\ token_source = "none"
  /\ call_log = << >>
  /\ log_files = [t \in Tasks |-> None]

NextStore ==
  \/ \E t \in Tasks : model_pick(t)
  \/ \E t \in Tasks : reasoning_pick(t)
  \/ \E t \in Tasks : lock_acquired(t)
  \/ \E t \in Tasks : write_text(t, FALSE)
  \/ \E t \in Tasks : write_text(t, TRUE)
  \/ \E t \in Tasks : write_text_fails(t)
  \/ \E t \in Tasks : os_replace(t)
  \/ restart

SpecStore == InitStore /\ [][NextStore]_vars

\* ------------------------------------------------------------ the saves of two runs
\* Those that call save_state in a run: run_prompt (its place is task[t].pc) and
\* the reader of stdout (task[t].readers).
Savers == Tasks \X {"pc", "readers"}

At(a) == task[a[1]][a[2]]

\* a is in _atomic_write_text, inside "async with self._state_lock".
Holds(a) == At(a) \in {"to_thread_1727", "write_text_587", "os_replace_588"}

\* a waits in _state_lock.acquire().
Waits(a) == At(a) = "lock_1702"

\* When a called save_state last: its place among the calls, which call_log keeps.
Requested(a) ==
  CHOOSE i \in DOMAIN call_log :
    call_log[i] = a /\ \A j \in DOMAIN call_log : call_log[j] = a => j <= i

\* No lock at all.
acquire_returns_at_once == TRUE

\* asyncio.Lock.acquire returns at once: the lock is not held and nothing waits for it.
acquire_at_once == \A b \in Savers : ~Holds(b) /\ ~Waits(b)

\* a inside the lock, the text of the registry made.
Inside(tasks, a, names, status, records) ==
  [tasks EXCEPT ![a[1]] = [@ EXCEPT ![a[2]] = "to_thread_1727",
                                    !.text = << dumps(payload(names, status, records)) >>]]

\* a calls save_state, the registry as the caller leaves it.
save_state_by(tasks, a) ==
  /\ task' = IF acquire_at_once THEN Inside(tasks, a, sessions', rec_status', rec')
             ELSE [tasks EXCEPT ![a[1]] = [@ EXCEPT ![a[2]] = "lock_1702"]]
  /\ call_log' = Append(call_log, a)

\* The lock is released to the one that has waited longest.
_state_lock_acquired(a) ==
  /\ Waits(a)
  /\ \A b \in Savers : ~Holds(b) /\ (Waits(b) => Requested(a) <= Requested(b))
  /\ task' = Inside(task, a, sessions, rec_status, rec)
  /\ UNCHANGED <<stream, aside, rec_status, rec_run, process, _run_message_to_session, ui,
                 handler, handler_pc, sessions, rec, signals, stopping, disk>>

\* tmp_path.write_text(content) in the thread: part of the text, then all of it.
_atomic_write_text(a, whole) ==
  /\ At(a) = IF whole THEN "write_text_587" ELSE "to_thread_1727"
  /\ tmp_file' = << [task[a[1]].text[1] EXCEPT !.whole = whole] >>
  /\ task' = [task EXCEPT ![a[1]] =
                [@ EXCEPT ![a[2]] = IF whole THEN "os_replace_588" ELSE "write_text_587"]]
  /\ UNCHANGED <<stream, aside, rec_status, rec_run, process, _run_message_to_session, ui,
                 handler, handler_pc, sessions, rec, signals, stopping, state_file>>

\* os.replace(tmp_path, path); the lock is released and save_state returns: to
\* the reader, or to run_prompt after line 2040 or 2045.
save_state_returns(a) ==
  /\ At(a) = "os_replace_588"
  /\ state_file' = tmp_file
  /\ tmp_file' = << >>
  /\ task' = [task EXCEPT ![a[1]] =
                [@ EXCEPT ![a[2]] = IF a[2] = "readers" THEN "reading"
                                    ELSE IF task[a[1]].stream = "stopped" THEN "save_state_2045"
                                    ELSE "save_state_2040",
                          !.text = << >>]]
  /\ UNCHANGED <<stream, aside, rec_status, rec_run, process, _run_message_to_session, ui,
                 handler, handler_pc, sessions, rec, signals, stopping>>

\* The reader of stdout hands _handle_json_event a record that carries the
\* token of a session that has none: rec.thread_id is set and save_state called.
token_found(t) ==
  LET n == task[t].session IN
  /\ task[t].readers = "reading"
  /\ rec[n].thread_id = << >>
  /\ \E explicit_id \in Uuids : rec' = [rec EXCEPT ![n].thread_id = << explicit_id >>]
  /\ UNCHANGED <<sessions, rec_status>>
  /\ save_state_by(task, <<t, "readers">>)
  /\ UNCHANGED <<stream, rec_run, process, _run_message_to_session, ui, handler, handler_pc,
                 signals, stopping, disk, run_events, token_source, edit_rejected, log_files>>

\* process.wait() and the readers returned: the status and the result are set
\* and save_state called (line 2040).
run_prompt_exited_save(t) ==
  LET n == task[t].session
      stopped == rec_run[n] # NoRun /\ rec_run[n].stop_requested
  IN
  /\ task[t].pc = "wait_2024"
  /\ process[t] = "exited"
  /\ task[t].readers = "done"
  /\ \E return_code \in {0, 1}, d \in 0..MaxDuration :
       /\ rec_status' = [rec_status EXCEPT ![n] = exit_status(stopped, return_code)]
       /\ rec' = [rec EXCEPT ![n].last_run_duration_s = << d >>,
                             ![n].last_result = exit_result(stopped, return_code)]
  /\ UNCHANGED sessions
  /\ save_state_by([task EXCEPT ![t].paused = (rec_run[n] # NoRun /\ rec_run[n].paused)],
                   <<t, "pc">>)
  /\ UNCHANGED <<stream, rec_run, process, _run_message_to_session, ui, handler, handler_pc,
                 signals, stopping, disk, run_events, token_source, edit_rejected, log_files>>

\* That save_state and stream.stop() returned: the message is unregistered,
\* rec.run is None and save_state called (line 2045).
run_prompt_finish_save(t) ==
  /\ task[t].pc = "save_state_2040"
  /\ _run_message_to_session' = unregister_run_message(_run_message_to_session, task[t].message_id)
  /\ rec_run' = [rec_run EXCEPT ![task[t].session] = NoRun]
  /\ UNCHANGED <<sessions, rec_status, rec>>
  /\ save_state_by([task EXCEPT ![t].stream = "stopped"], <<t, "pc">>)
  /\ UNCHANGED <<stream, process, ui, handler, handler_pc, signals, stopping, disk,
                 run_events, token_source, edit_rejected, log_files>>

\* Sessions A and B of codex, without a token, each at the start of a run: the
\* processes live and have written nothing yet.
InitSaves ==
  /\ InitStream({TRUE})
  /\ rec_status = [n \in NameSet |-> "running"]
  /\ rec_run = [n \in NameSet |-> SessionRun(CHOOSE t \in Tasks : Names[t] = n,
                                              CHOOSE t \in Tasks : Names[t] = n)]
  /\ process = [t \in Tasks |-> "live"]
  /\ task = [t \in Tasks |->
               [NoTask EXCEPT !.session = Names[t], !.pc = "wait_2024", !.readers = "reading",
                              !.stream = "running", !.message_id = t]]
  /\ _run_message_to_session = [m \in Surfaces |-> IF m \in Tasks THEN Names[m] ELSE None]
  /\ ui = [mode |-> "session", session |-> Names[1]]
  /\ handler = None
  /\ handler_pc = "none"
  /\ sessions = NameSet
  /\ rec = [n \in NameSet |->
              [SessionRecord("/srv", ENGINE_CODEX, DEFAULT_MODEL)
                 EXCEPT !.last_stdout_log = << CHOOSE t \in Tasks : Names[t] = n >>,
                        !.last_stderr_log = << CHOOSE t \in Tasks : Names[t] = n >>]]
  /\ signals = [t \in Tasks |-> {}]
  /\ stopping = [c \in Callers |-> NoWait]
  /\ state_file = << dumps(payload(sessions, rec_status, rec)) >>
  /\ tmp_file = << >>
  /\ run_events = << >>
  /\ token_source = "none"
  /\ call_log = << >>
  /\ log_files = [t \in Tasks |-> Names[t]]

NextSaves ==
  \/ \E t \in Tasks : token_found(t)
  \/ \E t \in Tasks : process_exits(t)
  \/ \E t \in Tasks : pipes_close(t)
  \/ \E t \in Tasks : run_prompt_exited_save(t)
  \/ \E t \in Tasks : run_prompt_finish_save(t)
  \/ \E t \in Tasks : run_prompt_pending_delete(t)
  \/ \E a \in Savers : _state_lock_acquired(a)
  \/ \E a \in Savers : _atomic_write_text(a, FALSE)
  \/ \E a \in Savers : _atomic_write_text(a, TRUE)
  \/ \E a \in Savers : save_state_returns(a)

SpecSaves == InitSaves /\ [][NextSaves]_vars

\* ------------------------------------------------------------ claims on the lifecycle
\* C12: a session marked pending_delete by delete_session is eventually removed
\* from the registry, the engine process being one that exits.
C12_DeletedAfterExit ==
  \A n \in NameSet : (n \in sessions /\ rec[n].pending_delete) ~> (n \notin sessions)

\* ------------------------------------------------------------ claims on rejected edits
\* C14: after an edit was rejected for good (the message can't be edited or is
\* not found, the message id is invalid, the chat not found) the stream starts
\* no further edit of its message.
C14_NoEditAfterRejection == [][edit_rejected => pc' # "edit"]_vars

\* ------------------------------------------------------------ claims on a failed start
\* Task t leaves _spawn_process by its exception.
SpawnFails(t) == task[t].pc = "_spawn_process_1995" /\ task'[t].pc = "save_state_1978"

\* Task t returns from _handle_start_failure, and so from run_prompt.
FailedRunEnds(t) == task[t].pc = "save_state_1978" /\ task'[t].pc = "done"

\* What both steps leave alone: every run, the processes, and the records of
\* the sessions other than n.
OthersKept(n) ==
  /\ rec_run' = rec_run
  /\ process' = process
  /\ sessions' = sessions
  /\ \A o \in NameSet \ {n} : rec'[o] = rec[o] /\ rec_status'[o] = rec_status[o]

\* C15 (as stated): when run_prompt returns after a failed spawn, the session
\* has status "error" and last_result "error" and no run, and its message is
\* not registered.
C15_EndsInError ==
  [][\A t \in Tasks :
       FailedRunEnds(t) =>
         /\ rec_status'[task[t].session] = "error"
         /\ rec'[task[t].session].last_result = "error"
         /\ rec_run'[task[t].session] = NoRun
         /\ _run_message_to_session'[task[t].message_id] = None]_vars

\* C15 (amended): a failed spawn sets the session's status and last_result to
\* "error" and saves them, and run_prompt then returns, its stream stopped and
\* its message no longer registered; the task attaches no run and has no
\* process, and neither step changes a run or another session's record.
C15_StartFailure ==
  [][\A t \in Tasks :
       /\ SpawnFails(t) =>
            /\ rec_status'[task[t].session] = "error"
            /\ rec'[task[t].session].last_result = "error"
            /\ state_file' = << dumps(payload(sessions, rec_status', rec')) >>
            /\ OthersKept(task[t].session)
       /\ FailedRunEnds(t) =>
            /\ task'[t].stream = "stopped"
            /\ _run_message_to_session'[task[t].message_id] = None
            /\ process'[t] = "none"
            /\ \A n \in NameSet : rec_run'[n] # NoRun => rec_run'[n].task # t
            /\ rec'[task[t].session] = rec[task[t].session]
            /\ rec_status' = rec_status
            /\ OthersKept(task[t].session)]_vars

\* A run_prompt that failed to start has returned while another session runs.
C15_Witness ==
  \E t \in Tasks, o \in NameSet :
    /\ task[t].pc = "done"
    /\ task[t].stream = "stopped"
    /\ process[t] = "none"
    /\ rec_status[o] = "running"
    /\ rec_run[o] # NoRun
    /\ rec_run[o].task # t
    /\ \E n \in NameSet \ {o} : rec_status[n] = "error" /\ rec[n].last_result = "error"

\* ------------------------------------------------------------ claims on stop
\* The call of stop that a step makes, if it makes one.
StopIsCalled == Len(call_log') = Len(call_log) + 1

TheCall == call_log'[Len(call_log')]

\* C16: stop on a run whose process has exited returns True and sends no
\* signal, waits for nothing and changes nothing but stop_requested; so does
\* every further call, and every call on a run returns True.
C16_StopExited ==
  [][StopIsCalled =>
       /\ TheCall.found # "no run" => TheCall.returns
       /\ TheCall.found = "exited" =>
            /\ signals' = signals
            /\ stopping' = stopping
            /\ process' = process
            /\ rec_run' = [rec_run EXCEPT ![Names[1]].stop_requested = TRUE]
            /\ (\E i \in DOMAIN call_log : call_log[i].found # "no run") => rec_run' = rec_run
     ]_vars

\* stop was called on the live run, then twice after its process had exited.
C16_Witness ==
  /\ Len(call_log) = 3
  /\ call_log[1].found = "live"
  /\ call_log[2].found = "exited" /\ call_log[2].returns
  /\ call_log[3].found = "exited" /\ call_log[3].returns
  /\ signals[1] = {"SIGTERM"}

\* C17: stop on a live run sends SIGTERM to the process group, and no SIGKILL
\* with it; when its wait ends, the group is sent SIGKILL if the process has
\* not exited, which is after the 5 seconds, and nothing if it has; SIGKILL is
\* sent in no other way, and the wait does end.
C17_TermThenKill ==
  /\ [][\A c \in Callers :
          /\ (stopping[c] = NoWait /\ stopping'[c] # NoWait) =>
               /\ process[stopping'[c].proc] = "live"
               /\ signals' = [signals EXCEPT ![stopping'[c].proc] = @ \cup {"SIGTERM"}]
          /\ (stopping[c] # NoWait /\ stopping'[c] = NoWait) =>
               IF process[stopping[c].proc] = "exited"
               THEN signals' = signals
               ELSE /\ stopping[c].elapsed >= STOP_GRACE_SECONDS
                    /\ signals' = [signals EXCEPT ![stopping[c].proc] = @ \cup {"SIGKILL"}]
          /\ (stopping[c] = NoWait /\ stopping'[c] = NoWait /\ StopIsCalled
               /\ TheCall.caller = c) => signals' = signals
       ]_vars
  /\ \A c \in Callers : (stopping[c] # NoWait) ~> (stopping[c] = NoWait)

\* Two callers stopped the live run: one returned after the timeout and the
\* group was sent SIGKILL, the process exited, and the other returned.
C17_Witness ==
  /\ signals[1] = {"SIGTERM", "SIGKILL"}
  /\ process[1] = "exited"
  /\ \A c \in Callers : stopping[c] = NoWait
  /\ Len(call_log) >= 2
  /\ call_log[1].found = "live" /\ call_log[2].found = "live"

\* ------------------------------------------------------------ claims on clear
\* The call of clear_session_state that a step makes, if it makes one.
ClearIsCalled == Len(call_log') = Len(call_log) + 1

TheClear == call_log'[Len(call_log')]

\* C18: clear_session_state on a session whose process lives returns failure
\* and changes no record, no run, no log and no file; on a session without a
\* live process it returns success, the token, the log references and the
\* duration are None, the status "idle", last_result "never", pending_delete
\* False and the run None, the session's logs are removed, and the state file
\* holds the record as cleared.
C18_Clear ==
  [][ClearIsCalled =>
       IF TheClear.found = "live"
       THEN /\ ~TheClear.returns
            /\ UNCHANGED <<rec, rec_status, rec_run, log_files, state_file, tmp_file, sessions>>
       ELSE /\ TheClear.returns
            /\ rec'[Names[1]] =
                 [path |-> rec[Names[1]].path, engine |-> rec[Names[1]].engine,
                  model |-> rec[Names[1]].model,
                  reasoning_effort |-> rec[Names[1]].reasoning_effort,
                  thread_id |-> << >>, last_result |-> "never",
                  last_stdout_log |-> << >>, last_stderr_log |-> << >>,
                  last_run_duration_s |-> << >>, pending_delete |-> FALSE]
            /\ rec_status'[Names[1]] = "idle"
            /\ rec_run'[Names[1]] = NoRun
            /\ \A t \in Tasks : log_files'[t] # Names[1]
            /\ state_file' = << dumps(payload(sessions, rec_status', rec')) >>
            /\ state_file'[1].payload[Names[1]].thread_id = << >>
     ]_vars

\* clear_session_state was refused on the live session, and accepted after the
\* process had exited, on a record with a token and pending_delete set.
C18_Witness ==
  /\ Len(call_log) = 2
  /\ call_log[1].found = "live" /\ ~call_log[1].returns
  /\ call_log[2].found = "exited" /\ call_log[2].returns
  /\ call_log[2].before.thread_id # << >>
  /\ call_log[2].before.pending_delete
  /\ call_log[2].before.last_stdout_log # << >>
  /\ rec[Names[1]].thread_id = << >>
  /\ ~rec[Names[1]].pending_delete

\* ------------------------------------------------------------ claims on the state file
\* C19: STATE_PATH always holds a complete text, and changes only by the
\* os.replace of a save, to the whole text which that save made of the
\* registry; a restart at any step of a save finds it so.
C19_NeverHalfWritten ==
  /\ [](state_file # << >> /\ state_file[1].whole)
  /\ [][state_file' # state_file =>
          \E t \in Tasks :
            /\ task[t].pc = "os_replace_588"
            /\ task[t].text[1].whole
            /\ state_file' = task[t].text]_vars

\* The bot was restarted while a save had written part of its text: the
\* temporary file holds the part, STATE_PATH the complete text of the state
\* before, which the new manager has loaded.
C19_Witness ==
  /\ call_log # << >>
  /\ call_log[Len(call_log)] = "restart"
  /\ \A t \in Tasks : task[t] = NoTask
  /\ tmp_file # << >>
  /\ ~tmp_file[1].whole
  /\ state_file[1].whole
  /\ state_file[1].payload # tmp_file[1].payload
  /\ state_file = << dumps(payload(sessions, rec_status, rec)) >>

\* The step is a restart.
Restarts == call_log' = Append(call_log, "restart")

\* C20: a manager that loads the file which holds the saved registry has the
\* same sessions, each with the same path, engine, model, reasoning effort,
\* token, last result and log references (and duration and pending_delete),
\* and the same status but "idle" for "running"; after any load no session is
\* "running", and no text of the file or of a save has the status "running".
C20_RoundTrip ==
  /\ [][(Restarts /\ state_file = << dumps(payload(sessions, rec_status, rec)) >>) =>
          /\ sessions' = sessions
          /\ \A n \in sessions :
               /\ rec'[n] = rec[n]
               /\ rec_status'[n] = IF rec_status[n] = "running" THEN "idle" ELSE rec_status[n]]_vars
  /\ [][Restarts => \A n \in sessions' : rec_status'[n] # "running"]_vars
  /\ [](\A file \in {state_file, tmp_file} \cup {task[t].text : t \in Tasks} :
          file # << >> => \A n \in DOMAIN file[1].payload : file[1].payload[n].status # "running")

\* A session that was running, with a token, a picked model and effort and its
\* logs, was saved and then loaded by a new manager.
C20_Witness ==
  /\ Len(call_log) = 3
  /\ call_log[3] = "restart"
  /\ state_file = << dumps(payload(sessions, rec_status, rec)) >>
  /\ sessions = NameSet
  /\ rec[Names[1]].model = "gpt-5.2-codex"
  /\ rec[Names[1]].reasoning_effort = "xhigh"
  /\ rec[Names[1]].thread_id # << >>
  /\ rec[Names[1]].last_stdout_log # << >>
  /\ rec[Names[1]].last_run_duration_s = << >>
  /\ rec_status[Names[1]] = "idle"

\* ------------------------------------------------------------ claims on the logs
\* C21: a call of clear_session_state or delete_session for a session leaves
\* in LOG_DIR every log that a run of another session wrote.
C21_OnlyOwnLogs ==
  [][Len(call_log') = Len(call_log) + 1 =>
       \A t \in Tasks :
         log_files[t] \notin {None, call_log'[Len(call_log')].session}
           => log_files'[t] = log_files[t]]_vars

\* ------------------------------------------------------------ claims on the ownership of surfaces
\* A run_prompt of the session has started and not returned.
RunInProgress(n) == \E t \in Tasks : task[t].session = n /\ task[t].pc \notin {"none", "done"}

\* C22: _run_message_to_session names no session that is out of the registry
\* and no session all of whose runs have ended (run_prompt returned).
C22_NoDanglingOwnership ==
  \A m \in Surfaces, n \in NameSet :
    _run_message_to_session[m] = n => n \in sessions /\ RunInProgress(n)

\* ------------------------------------------------------------ claims on the records of a run
\* The characters of a reasoning text are not in the string.
NoReasoning(s) == \A i \in DOMAIN s : s[i].c # "r"

\* The max_chars of the callers of _preview_from_stdout_log.
PreviewSizes == {1200, 3200, 100000}

\* C23: the text of a reasoning item is in no add_text call, in no segment of
\* the stream and in no preview of the log.
C23_ReasoningHidden ==
  /\ \A i \in DOMAIN calls : NoReasoning(calls[i].content)
  /\ \A i \in DOMAIN log_segments : NoReasoning(log_segments[i].content)
  /\ \A max_chars \in PreviewSizes : NoReasoning(_preview_from_stdout_log(run_events, max_chars))

\* The "$ <command>" text.
DollarLine(cmd_s) == << Run(NL, 1, 0), Run("$ ", 1, 0) >> \o cmd_s \o << Run(NL, 1, 0) >>

IsDollarLine(text) == Len(text) >= 3 /\ text[1].c = NL /\ text[2].c = "$ "

\* The "(exit_code: N)" text.
IsExitLine(text) == text # <<>> /\ text[1].c = "(exit_code: "

RECURSIVE LastDollarLine(_)
\* The last "$ <command>" text among the calls, <<>> when there is none.
LastDollarLine(cs) ==
  IF cs = <<>> THEN <<>>
  ELSE IF IsDollarLine(cs[Len(cs)].content) THEN cs[Len(cs)].content
  ELSE LastDollarLine(Front(cs))

\* The step handles a command_execution record.
CommandHandled ==
  /\ Len(run_events') = Len(run_events) + 1
  /\ run_events'[Len(run_events')].item.type = "command_execution"

\* The add_text calls of the step.
NewCalls == SubSeq(calls', Len(calls) + 1, Len(calls'))

\* The texts of the step that are neither the "$" text nor the "(exit_code)"
\* text.
OutputCalls == SelectSeq(NewCalls, LAMBDA c : ~IsDollarLine(c.content) /\ ~IsExitLine(c.content))

\* The completion part of C24: a "completed" record appends its output, if
\* it has any, in at most 2000 characters and a newline, whole when it has no
\* more than 2000, and then the "(exit_code: N)" text if it has an exit code;
\* a "$" text comes before both, and nothing else is appended.
CompletionEmitted ==
  LET obj == run_events'[Len(run_events')]
      out == obj.item.aggregated_output
      k == Len(NewCalls)
  IN /\ \A i \in 2..k : ~IsDollarLine(NewCalls[i].content)
     /\ \A i \in 1..(k - 1) : ~IsExitLine(NewCalls[i].content)
     /\ obj.type = "item.completed" =>
          /\ Len(OutputCalls) = (IF out = <<>> THEN 0 ELSE 1)
          /\ \A i \in DOMAIN OutputCalls :
               /\ StrLen(OutputCalls[i].content) <= 2000 + 1
               /\ StrLen(out) <= 2000 =>
                    Canon(OutputCalls[i].content) = Canon(RStrip(out, {NL}) \o << Run(NL, 1, 0) >>)
               /\ StrLen(out) > 2000 =>
                    /\ OutputCalls[i].content[1] = Run("o", 990, 0)
                    /\ \E j \in DOMAIN OutputCalls[i].content : OutputCalls[i].content[j].c = "~"
          /\ (k > 0 /\ IsExitLine(NewCalls[k].content)) <=> obj.item.exit_code # <<>>

\* C24 as stated: the "$ <command>" text is appended only at the first record
\* of the command in the run.
C24_CommandShownOnce ==
  [][CommandHandled =>
       LET obj == run_events'[Len(run_events')]
           earlier == \E i \in DOMAIN run_events :
                        /\ run_events[i].item.type = "command_execution"
                        /\ run_events[i].item.command = obj.item.command
       IN /\ (\E i \in DOMAIN NewCalls : NewCalls[i].content = DollarLine(obj.item.command))
               <=> ~earlier
          /\ CompletionEmitted]_vars

\* C24, amended: the "$ <command>" text is appended exactly when the command
\* differs from the command of the last "$" text of the run (a "started"
\* record followed by the "completed" record of the same command yields it
\* once, a command that comes again after another yields it again).
C24_CommandShownWhenChanged ==
  [][CommandHandled =>
       LET obj == run_events'[Len(run_events')] IN
       /\ (\E i \in DOMAIN NewCalls : NewCalls[i].content = DollarLine(obj.item.command))
            <=> LastDollarLine(calls) # DollarLine(obj.item.command)
       /\ CompletionEmitted]_vars

\* "ls" started and completed with a long output and exit code 0, after "cat":
\* the stream holds "$ cat", then "$ ls" once, the output cut to 1994
\* characters and the exit code.
C24_Witness ==
  /\ Len(run_events) = 3
  /\ run_events[1].item.command = << Run("cat", 1, 0) >>
  /\ run_events[2].type = "item.started"
  /\ run_events[2].item.command = << Run("ls", 1, 0) >>
  /\ run_events[3].type = "item.completed"
  /\ run_events[3].item.command = << Run("ls", 1, 0) >>
  /\ run_events[3].item.exit_code = << 0 >>
  /\ StrLen(run_events[3].item.aggregated_output) > 2000
  /\ Len(SelectSeq(calls, LAMBDA c : c.content = DollarLine(<< Run("ls", 1, 0) >>))) = 1
  /\ StrLen(calls[Len(calls) - 1].content) = 1994 + 1
  /\ IsExitLine(calls[Len(calls)].content)

\* ------------------------------------------------------------ claims on the command line
\* The prompt has a "-" after nothing but whitespace.
BeginsWithDash(prompt) ==
  \E i \in DOMAIN prompt :
    /\ prompt[i].c = "-"
    /\ \A j \in 1 .. (i - 1) : prompt[j].c \in {" ", NL}

\* The call resumes a conversation.
Resumes(call) == call.run_mode = "continue" /\ call.thread_id # << >>

\* C26: for either engine and either run mode the prompt is the last element of
\* argv; when the prompt begins with "-" after its leading whitespace, the
\* element before it is "--", which follows the resume or -r option and its
\* token when the run resumes; otherwise argv holds no "--" before the prompt.
C26_EndOfOptions ==
  \A c \in DOMAIN call_log :
    LET call == call_log[c]
        cmd == call.cmd
        k == Len(cmd)
    IN /\ cmd[k] = call.prompt
       /\ BeginsWithDash(call.prompt) =>
            /\ cmd[k - 1] = << Run("-", 2, 0) >>
            /\ Resumes(call) =>
                 /\ cmd[k - 2] = << Run(call.thread_id[1], 1, 0) >>
                 /\ cmd[k - 3] = << Run(IF call.engine = "claude" THEN "-r" ELSE "resume", 1, 0) >>
       /\ Cardinality({i \in 1 .. (k - 1) : cmd[i] = << Run("-", 2, 0) >>})
            = IF BeginsWithDash(call.prompt) THEN 1 ELSE 0

\* C26's case: command lines of both engines were built for a resumed run and
\* a prompt with a dash after leading whitespace.
C26_Witness ==
  \E c, d \in DOMAIN call_log :
    /\ call_log[c].engine = "claude" /\ Resumes(call_log[c])
    /\ call_log[c].prompt = << Run(" ", 2, 0), Run("-", 2, 0), Run("h", 1, 0) >>
    /\ call_log[d].run_mode = "new"
    /\ call_log[d].prompt = << Run("-", 2, 0) >>

\* ------------------------------------------------------------ claims on a paused stream
\* The stream's task sends an edit request to the surface in this step.
EditDispatched == pc' = "edit" /\ pc # "edit"

\* C27: once pause() has returned, the stream sends no edit to its surface
\* until resume(): every edit request leaves a stream that is not paused, the
\* attempts after a rate-limit backoff included.
C27_NoEditWhilePaused == [][EditDispatched => _resume_event]_vars

\* ------------------------------------------------------------ claims on runs that follow each other
\* Task t is in the bookkeeping that follows the exit of its process and takes
\* a step of it.
PostExitStep(t) ==
  /\ process[t] = "exited"
  /\ task[t].pc \in {"wait_2024", "save_state_2040"}
  /\ task'[t].pc # task[t].pc

\* The run attached to session n is the run of task u, whose process lives.
NewerRun(n, u) ==
  /\ task[u].session = n
  /\ rec_run[n] # NoRun /\ rec_run[n].task = u
  /\ process[u] = "live"

\* C28: the bookkeeping that follows the exit of a run's process leaves a newer
\* run of the session alone: while the newer process lives, its SessionRun
\* stays attached and the status stays "running".
C28_NewerRunKept ==
  [][\A t, u \in Tasks :
       t # u /\ PostExitStep(t) /\ NewerRun(task[t].session, u)
         /\ rec_status[task[t].session] = "running"
       => /\ rec_run'[task[t].session] = rec_run[task[t].session]
          /\ rec_status'[task[t].session] = "running"]_vars

\* C29: every live engine process was spawned for a session that is still in
\* the registry, whenever delete_session was called in the life of its run.
C29_LiveProcessHasSession ==
  \A t \in Tasks : process[t] = "live" => task[t].session \in sessions

\* ------------------------------------------------------------ claims on the paused flag
\* C30: whenever no handler is between two of its awaits, the paused flag of
\* every run agrees with its stream: the flag is set exactly when the stream's
\* _resume_event is clear, whatever attach, log, stop_no, detach and the
\* pause_other_attached_runs of run_prompt did, in whatever order.
C30_PausedFlagAgrees ==
  handler = None =>
    \A n \in NameSet :
      rec_run[n] # NoRun => (rec_run[n].paused <=> ~rec_run[n]._resume_event)

\* C30's case: both sessions run on the panel; B's run_prompt paused A's run,
\* whose stream is paused, and B's run, attached, has a stream that is not.
C30_Witness ==
  /\ handler = None
  /\ \A n \in NameSet : rec_run[n] # NoRun /\ rec_run[n].message_id = PANEL
  /\ rec_run["A"].paused /\ ~rec_run["A"]._resume_event
  /\ ~rec_run["B"].paused /\ rec_run["B"]._resume_event
  /\ _run_message_to_session[PANEL] = "B"

\* ------------------------------------------------------------ claims on the end of a stopped run
\* C31: stop on a live run cancels the readers of the run and signals the
\* process group, and a run with a stop request comes to the end of its
\* bookkeeping: the SessionRun is detached and the status is not "running".
C31_StopEndsRun ==
  /\ [][StopIsCalled /\ TheCall.found = "live"
          => /\ task'[1].readers = "cancelled"
             /\ "SIGTERM" \in signals'[1]]_vars
  /\ (rec_run[Names[1]] # NoRun /\ rec_run[Names[1]].stop_requested)
       ~> (rec_run[Names[1]] = NoRun /\ rec_status[Names[1]] # "running")

\* ------------------------------------------------------------ claims on the retries of an edit
AttemptsBounded == attempts <= (IF _stop THEN MAX_ATTEMPTS_STOPPING ELSE MAX_ATTEMPTS)

DelaysDouble ==
  \A i \in 2..Len(call_log) : call_log[i].delay_s >= 2 * call_log[i - 1].delay_s

InEdit == pc \in {"edit", "backoff"}

\* C32 as claimed: a dispatch makes at most 5 edit calls on a stream that is not
\* stopping and at most 12 on one that is; the first retry delay is the
\* retry_after signalled, each further one at least twice the one before; the
\* retry loop ends.
C32_RetriesBounded ==
  /\ [](AttemptsBounded /\ DelaysDouble)
  /\ [](call_log # << >> => call_log[1].delay_s = call_log[1].first)
  /\ InEdit ~> ~InEdit

\* C32, amended: the same, the first retry delay being the retry_after
\* signalled when that is positive and 2 seconds when it is not.
C32_RetriesBoundedFromDefault ==
  /\ [](AttemptsBounded /\ DelaysDouble)
  /\ [](call_log # << >> =>
          call_log[1].delay_s = (IF call_log[1].first > 0 THEN call_log[1].first
                                 ELSE DEFAULT_RETRY_AFTER))
  /\ InEdit ~> ~InEdit

\* A dispatch in its third sleep, the first RetryAfter having signalled nothing positive.
C32_Witness ==
  /\ pc = "backoff"
  /\ Len(call_log) = 3
  /\ call_log[1].first = 0
  /\ call_log[3].delay_s >= 4 * DEFAULT_RETRY_AFTER

\* C33: the sleeps of one edit dispatch add up to at most 15 seconds when the
\* dispatch began on a stream that was not stopping, and to at most 60 seconds
\* when it began on one that was, whatever the RetryAfter answers carry.
C33_WaitWithinBudget == Slept(call_log) <= max_total_wait_s

\* ------------------------------------------------------------ claims on the throttle
\* _edit is entered with something to send: the edit dispatch of a render cycle.
CycleDispatched == pc' = "edit" /\ pc \notin {"edit", "backoff"}

\* C34: on a stream that is not stopping, an edit is dispatched only when
\* EDIT_THROTTLE_SECONDS have passed since the cycle before ended (and so since
\* its dispatch), whatever is appended meanwhile; once _stop is set the task
\* leaves the throttle wait, whether time passes or not.
C34_Throttled ==
  /\ [][CycleDispatched /\ ~_stop => since_edit >= EDIT_THROTTLE_SECONDS]_vars
  /\ (pc = "throttle" /\ _stop) ~> (pc # "throttle")

\* The second dispatch of a stream that is not stopping, its first edit sent,
\* text appended since.
C34_Witness ==
  /\ pc = "edit"
  /\ attempts = 1
  /\ ~_stop
  /\ _last_sent_html # << >>
  /\ <<text_html>> # _last_sent_html
  /\ Len(calls) >= 1

\* ------------------------------------------------------------ claims on concurrent saves
\* save_state returns to a.
Completes(a) == At(a) = "os_replace_588" /\ task'[a[1]][a[2]] # "os_replace_588"

InSave(a) == Holds(a) \/ Waits(a)

\* C35: at most one save_state is between its snapshot and its rename, and the
\* files change only by its steps, STATE_PATH to the whole text it made; a save
\* returns before every save called after it; the reader's save on finding the
\* token is over before run_prompt of the same run calls save_state after the
\* exit; and when no save is under way the file holds the text of the registry
\* as it is in memory.
C35_SavesInOrder ==
  /\ [](\A a, b \in Savers : Holds(a) /\ Holds(b) => a = b)
  /\ [][/\ tmp_file' # tmp_file => \E a \in Savers : Holds(a) /\ task'[a[1]][a[2]] # At(a)
        /\ state_file' # state_file =>
             \E a \in Savers : /\ Completes(a)
                               /\ task[a[1]].text[1].whole
                               /\ state_file' = task[a[1]].text]_vars
  /\ [][\A a \in Savers : Completes(a) =>
          \A b \in Savers \ {a} : InSave(b) => Requested(a) < Requested(b)]_vars
  /\ [](\A t \in Tasks : InSave(<<t, "readers">>) => task[t].pc = "wait_2024")
  /\ []((\A a \in Savers : ~InSave(a)) =>
          state_file = << dumps(payload(sessions, rec_status, rec)) >>)

\* The reader of one run has written part of its text, run_prompt of the other
\* run waits for the lock, and a save before them has returned.
C35_Witness ==
  /\ Len(call_log) >= 3
  /\ \E a, b \in Savers :
       /\ a[2] = "readers" /\ Holds(a)
       /\ b[2] = "pc" /\ Waits(b)
  /\ tmp_file # << >>
  /\ ~tmp_file[1].whole

\* ------------------------------------------------------------ claims on the panel's views
\* _render_and_sync hands the panel to the stream of the session shown.
LiveView(r, u) ==
  /\ u.mode = "session"
  /\ u.session \in sessions
  /\ _is_running(r, u.session)
  /\ r[u.session].message_id = PANEL

\* The run of task t is in progress, its session running, and its stream edits
\* the panel: nothing has paused it.
EditsPanel(r, t) ==
  /\ task[t].stream = "running"
  /\ task[t].message_id = PANEL
  /\ task[t].session \in sessions
  /\ rec_status[task[t].session] = "running"
  /\ (r[task[t].session] # NoRun /\ r[task[t].session].task = t) => ~r[task[t].session].paused

\* C36: when _render_and_sync has rendered a view on the panel that is not the
\* live view of a running session, no run in progress has a stream on the
\* panel that is not paused; and until the handler returns (no other handler
\* runs meanwhile) no step of a run_prompt or of a process resumes a paused run.
C36_PanelRunsPaused ==
  [][/\ (ui' # ui /\ ~LiveView(rec_run', ui')) => \A t \in Tasks : ~EditsPanel(rec_run', t)
     /\ (task' # task \/ process' # process) =>
          \A n \in NameSet :
            (rec_run[n] # NoRun /\ rec_run[n].paused /\ rec_run'[n] # NoRun
               /\ rec_run'[n].task = rec_run[n].task) => rec_run'[n].paused]_vars

\* ------------------------------------------------------------ claims on the end of a run
\* Task t's run_prompt takes the step after process.wait() and the readers.
Exits(t) == task[t].pc = "wait_2024" /\ task'[t].pc = "save_state_2040"

\* Task t's run_prompt takes the step after stream.stop().
Detaches(t) == task[t].pc = "save_state_2040" /\ task'[t].pc = "save_state_2045"

\* A stop was requested for the run of task t: its process was signalled, or
\* the run is attached with the request on it.
StopRequestedFor(t) ==
  \/ signals[t] # {}
  \/ /\ rec_run[task[t].session] # NoRun
     /\ rec_run[task[t].session].task = t
     /\ rec_run[task[t].session].stop_requested

\* C37: when the process of a run has ended, run_prompt leaves the session
\* with the status and the result of that run: 'stopped' and 'stopped' if a
\* stop was requested for it, else 'idle' and 'success' for exit code 0, else
\* 'error' and 'error'; and when run_prompt has gone on past stream.stop() the
\* status is not 'running', the record has no SessionRun and the message of
\* the stream is registered for no session.
C37_ExitOutcome ==
  [][\A t \in Tasks :
       /\ Exits(t) =>
            \E return_code \in {0, 1} :
              /\ rec_status'[task[t].session] = exit_status(StopRequestedFor(t), return_code)
              /\ rec'[task[t].session].last_result = exit_result(StopRequestedFor(t), return_code)
       /\ Detaches(t) =>
            /\ rec_status'[task[t].session] # "running"
            /\ rec_run'[task[t].session] = NoRun
            /\ _run_message_to_session'[task[t].message_id] = None]_vars

\* ------------------------------------------------------------ the end of a run and its stream
\* One run of session A with its stream and the stream's task, from the attach
\* of the run to the return of run_prompt.  call_log holds the renders of
\* run_prompt on the panel.

\* stdout_task hands a line of the engine to the stream.
reader_adds_text ==
  /\ task[1].readers = "reading"
  /\ StreamAddText

\* A handler detaches the run: the detach and back buttons for a run that
\* _is_running, pause_other_attached_runs of a render on the stream's message
\* for a record with a run and the status "running".
run_detached ==
  LET n == Names[1] IN
  /\ rec_run[n] # NoRun
  /\ ~rec_run[n].paused
  /\ _is_running(rec_run, n) \/ rec_status[n] = "running"
  /\ rec_run' = [rec_run EXCEPT ![n] = paused_run(@)]
  /\ pause
  /\ UNCHANGED <<streamLoop, environment, others, rec_status, process, task,
                 _run_message_to_session, ui, handler>>

\* A handler attaches the run again: only for a run that _is_running.
run_attached ==
  LET n == Names[1] IN
  /\ _is_running(rec_run, n)
  /\ rec_run[n].paused
  /\ rec_run' = [rec_run EXCEPT ![n] = resumed_run(@)]
  /\ resume
  /\ UNCHANGED <<streamLoop, environment, others, rec_status, process, task,
                 _run_message_to_session, ui, handler>>

\* save_state returned: stream.stop() sets the events and awaits the stream's
\* task.
run_prompt_stream_stop(t) ==
  /\ task[t].pc = "save_state_2040"
  /\ stop
  /\ task' = [task EXCEPT ![t].pc = "stop_2041"]
  /\ UNCHANGED <<streamLoop, environment, others, rec_status, rec_run, process,
                 _run_message_to_session, ui, handler>>

\* The stream's task returned: the message is unregistered, rec.run is None and
\* save_state awaited.
run_prompt_detach(t) ==
  /\ task[t].pc = "stop_2041"
  /\ pc = "done"
  /\ _run_message_to_session' = unregister_run_message(_run_message_to_session, task[t].message_id)
  /\ rec_run' = [rec_run EXCEPT ![task[t].session] = NoRun]
  /\ task' = [task EXCEPT ![t].pc = "save_state_2045_first", ![t].stream = "stopped"]
  /\ UNCHANGED <<stream, aside, rec_status, process, ui, handler,
                 handler_pc, sessions, rec, signals, stopping>>
  /\ save_state

\* What run_prompt renders on the panel: _render_session_view of its session.
FinishedView(n) == [message_id |-> PANEL, session |-> n, status |-> rec_status[n]]

\* save_state returned: the session view is rendered on the panel unless the
\* run was paused at line 2027; pending_delete is looked at next.
run_prompt_render(t) ==
  /\ task[t].pc = "save_state_2045_first"
  /\ call_log' = IF ~task[t].paused
                 THEN Append(call_log, FinishedView(task[t].session))
                 ELSE call_log
  /\ task' = [task EXCEPT ![t].pc = "save_state_2045"]
  /\ UNCHANGED <<stream, rec_status, rec_run, process, _run_message_to_session, ui, handler,
                 handler_pc, sessions, rec, signals, stopping, disk, run_events, token_source,
                 edit_rejected, log_files>>

NextFinish ==
  \/ _run
  \/ Tick
  \/ reader_adds_text
  \/ run_detached
  \/ run_attached
  \/ process_exits(1)
  \/ run_prompt_exited(1)
  \/ run_prompt_stream_stop(1)
  \/ run_prompt_detach(1)
  \/ run_prompt_render(1)
  \/ run_prompt_pending_delete(1)

\* Session A runs, its run attached; the stream edits the run's own message or,
\* send_message having failed, the panel.
InitFinish ==
  /\ InitStream({TRUE})
  /\ \E m \in {PANEL, 1} :
       /\ rec_run = [n \in NameSet |-> IF n = Names[1] THEN SessionRun(1, m) ELSE NoRun]
       /\ task = [t \in Tasks |->
                    IF t = 1 THEN [NoTask EXCEPT !.session = Names[1], !.pc = "wait_2024",
                                                 !.readers = "reading", !.stream = "running",
                                                 !.message_id = m]
                    ELSE NoTask]
       /\ _run_message_to_session = [s \in Surfaces |-> IF s = m THEN Names[1] ELSE None]
  /\ rec_status = [n \in NameSet |-> IF n = Names[1] THEN "running" ELSE "idle"]
  /\ process = [t \in Tasks |-> IF t = 1 THEN "live" ELSE "none"]
  /\ ui = [mode |-> "session", session |-> Names[1]]
  /\ handler = None
  /\ handler_pc = "none"
  /\ sessions = NameSet
  /\ rec = [n \in NameSet |->
              IF n = Names[1]
              THEN [SessionRecord("/srv", ENGINE_CODEX, DEFAULT_MODEL)
                      EXCEPT !.last_stdout_log = << 1 >>, !.last_stderr_log = << 1 >>]
              ELSE SessionRecord("/srv", ENGINE_CODEX, DEFAULT_MODEL)]
  /\ signals = [t \in Tasks |-> {}]
  /\ stopping = [c \in Callers |-> NoWait]
  /\ state_file = << dumps(payload(sessions, rec_status, rec)) >>
  /\ tmp_file = << >>
  /\ run_events = << >>
  /\ token_source = "none"
  /\ call_log = << >>
  /\ log_files = [t \in Tasks |-> IF t = 1 THEN Names[1] ELSE None]

SpecFinish == InitFinish /\ [][NextFinish]_vars

\* ------------------------------------------------------------ claims on the end of a detached run
\* run_prompt is past line 2027, where it read rec.run.paused, and has not
\* returned.
PostExit(t) == task[t].pc \in {"save_state_2040", "stop_2041", "save_state_2045_first"}

\* C38: a run that is paused when run_prompt takes up the exit of its process
\* sends no edit to its message and renders nothing on the panel until
\* run_prompt returns; a run that is not paused then has the view of its
\* session, finished, rendered on the panel.
C38_DetachedRunKeepsQuiet ==
  [][/\ (PostExit(1) /\ task[1].paused) => (~EditDispatched /\ call_log' = call_log)
     /\ (task[1].pc = "save_state_2045_first" /\ task'[1].pc = "save_state_2045" /\ ~task[1].paused)
          => /\ call_log' = Append(call_log, FinishedView(Names[1]))
             /\ rec_status[Names[1]] # "running"]_vars

====
